---- MODULE Spec2Model ----
(***************************************************************************)
(* A model of the `parsing` crate: the JSON parser (src/parsing/src/json.rs)*)
(* and the HTTP request reader (src/parsing/src/http.rs).                  *)
(*                                                                         *)
(* Texts are sequences of one-character strings.  The pure parsing         *)
(* functions are operators that follow the code branch by branch; a Rust   *)
(* panic (an `unwrap()` of `None`) is the result [kind |-> "Panic"].       *)
(* Error values keep their variant only; the free-text context string the  *)
(* code formats into them is left out.                                     *)
(***************************************************************************)
EXTENDS Integers, Sequences, FiniteSets, TLC

VARIABLES
    input,      \* the text handed to parse_json / read_http_request
    src,        \* how the text was written (the test's view of the input)
    pc,         \* "start" | "done" for parse_json; "lines" | "done" for read_http_request
    result,     \* what the call returned (or that it panicked)
    lines,      \* read_http_request: the lines of the left-trimmed input still to read
    state,      \* read_http_request: ParserState
    method,     \* read_http_request: local `method`
    path,       \* read_http_request: local `path`
    version,    \* read_http_request: local `version`
    headers,    \* read_http_request: local `headers`
    body,       \* read_http_request: local `body`
    seen        \* history: the lines read so far, each with the state it was read in

vars == <<input, src, pc, result, lines, state, method, path, version, headers, body, seen>>

jsonVars == <<input, src, pc, result>>
httpVars == <<lines, state, method, path, version, headers, body, seen>>

(***************************************************************************)
(* Characters and text helpers (Rust str primitives).                      *)
(***************************************************************************)

\* char::is_whitespace, restricted to the ASCII characters the model uses
IsWhitespace(c) == c \in {" ", "\t", "\n", "\r", "\f"}

Digits == {"0", "1", "2", "3", "4", "5", "6", "7", "8", "9"}

\* &s[n..] with n counted from 0
Drop(s, n) == SubSeq(s, n + 1, Len(s))

\* &s[..n]
Take(s, n) == SubSeq(s, 1, n)

\* str::trim_start
TrimStart(s) ==
    IF \A i \in 1..Len(s) : IsWhitespace(s[i])
    THEN <<>>
    ELSE LET k == CHOOSE i \in 1..Len(s) :
                      /\ ~IsWhitespace(s[i])
                      /\ \A j \in 1..(i - 1) : IsWhitespace(s[j])
         IN  SubSeq(s, k, Len(s))

\* str::trim_end
TrimEnd(s) ==
    IF \A i \in 1..Len(s) : IsWhitespace(s[i])
    THEN <<>>
    ELSE LET k == CHOOSE i \in 1..Len(s) :
                      /\ ~IsWhitespace(s[i])
                      /\ \A j \in (i + 1)..Len(s) : IsWhitespace(s[j])
         IN  SubSeq(s, 1, k)

\* str::trim
Trim(s) == TrimEnd(TrimStart(s))

\* str::find(c): the 0-based index of the first c, or -1 for None
Find(s, c) ==
    IF \E i \in 1..Len(s) : s[i] = c
    THEN (CHOOSE i \in 1..Len(s) : s[i] = c /\ \A j \in 1..(i - 1) : s[j] # c) - 1
    ELSE -1

(***************************************************************************)
(* json.rs: values, errors and results.                                    *)
(***************************************************************************)

\* JsonType::Object(HashMap<String, JsonType>): a function from keys to values
JObject(m) == [t |-> "Object", o |-> m]
\* JsonType::Array(Vec<JsonType>)
JArray(a) == [t |-> "Array", a |-> a]
\* JsonType::String(String)
JString(s) == [t |-> "String", s |-> s]
\* JsonType::Number(i64)
JNumber(n) == [t |-> "Number", n |-> n]
\* JsonType::Decimal(f64): the value m / 10^e, m not a multiple of 10 unless e = 0
JDecimal(m, e) == [t |-> "Decimal", m |-> m, e |-> e]
\* JsonType::Boolean(bool)
JBoolean(b) == [t |-> "Boolean", b |-> b]

\* Ok((value, rest)) of the helper parsers
Ok(v, rest) == [kind |-> "Ok", val |-> v, rest |-> rest]
\* Err(ParserError::<variant>)
Err(e) == [kind |-> "Err", err |-> e]
\* a panic: `unwrap()` on `None`
Panic == [kind |-> "Panic"]

\* HashMap::new()
EmptyMap == <<>>

\* HashMap::insert that leaves the value of a key already present
MapInsert_keep(m, k, v) ==
    [x \in (DOMAIN m) \cup {k} |-> IF x \in DOMAIN m THEN m[x] ELSE v]

\* HashMap::insert: a later insert of the same key replaces the value
MapInsert(m, k, v) ==
    [x \in (DOMAIN m) \cup {k} |-> IF x = k THEN v ELSE m[x]]

(***************************************************************************)
(* json.rs: the scalar parsers.                                            *)
(***************************************************************************)

\* fn parse_boolean
parse_boolean(inp) ==
    IF inp # <<>> /\ inp[1] = "t" THEN
        IF Len(inp) < 4 THEN Err("InvalidSyntax")
        ELSE IF Take(inp, 4) = <<"t", "r", "u", "e">> THEN Ok(TRUE, Drop(inp, 4))
        ELSE Err("InvalidSyntax")
    ELSE IF inp # <<>> /\ inp[1] = "f" THEN
        IF Len(inp) < 5 THEN Err("InvalidSyntax")
        ELSE IF Take(inp, 5) = <<"f", "a", "l", "s", "e">> THEN Ok(FALSE, Drop(inp, 5))
        ELSE Err("InvalidSyntax")
    ELSE Err("UnexpectedToken")

RECURSIVE ClosingQuote(_, _)
\* the place, from i on, of the first quote that no backslash stands before; -1 when there is none
ClosingQuote(s, i) ==
    IF i > Len(s) THEN 0 - 1
    ELSE IF s[i] = "\\" THEN ClosingQuote(s, i + 2)
    ELSE IF s[i] = "\"" THEN i
    ELSE ClosingQuote(s, i + 1)

\* parse_string taking a backslash and the character after it as part of the string
parse_string_escapes(inp) ==
    IF inp = <<>> \/ inp[1] # "\"" THEN Err("InvalidSyntax")
    ELSE IF ClosingQuote(inp, 2) >= 0
         THEN Ok(SubSeq(inp, 2, ClosingQuote(inp, 2) - 1), Drop(inp, ClosingQuote(inp, 2)))
         ELSE Err("MissingToken")

\* fn parse_string: the string ends at the first quote after the opening one
parse_string(inp) ==
    IF inp = <<>> \/ inp[1] # "\"" THEN Err("InvalidSyntax")
    ELSE LET pos == Find(Drop(inp, 1), "\"")
         IN  IF pos >= 0
             THEN Ok(SubSeq(inp, 2, pos + 1), Drop(inp, pos + 2))
             ELSE Err("MissingToken")

DigitVal(c) ==
    CASE c = "0" -> 0 [] c = "1" -> 1 [] c = "2" -> 2 [] c = "3" -> 3 [] c = "4" -> 4
      [] c = "5" -> 5 [] c = "6" -> 6 [] c = "7" -> 7 [] c = "8" -> 8 [] c = "9" -> 9

RECURSIVE DigitsVal(_)
\* the value of a run of decimal digits
DigitsVal(ds) ==
    IF ds = <<>> THEN 0
    ELSE 10 * DigitsVal(Take(ds, Len(ds) - 1)) + DigitVal(ds[Len(ds)])

RECURSIVE StripLeadingZeros(_)
StripLeadingZeros(ds) ==
    IF Len(ds) > 1 /\ ds[1] = "0" THEN StripLeadingZeros(Tail(ds)) ELSE ds

RECURSIVE StripTrailingZeros(_)
StripTrailingZeros(ds) ==
    IF ds # <<>> /\ ds[Len(ds)] = "0" THEN StripTrailingZeros(Take(ds, Len(ds) - 1)) ELSE ds

RECURSIVE DigitsLeq(_, _)
\* a <= b for two digit runs of the same length
DigitsLeq(a, b) ==
    IF a = <<>> THEN TRUE
    ELSE IF DigitVal(a[1]) < DigitVal(b[1]) THEN TRUE
    ELSE IF DigitVal(a[1]) > DigitVal(b[1]) THEN FALSE
    ELSE DigitsLeq(Tail(a), Tail(b))

\* i64::MAX = 9223372036854775807, as its digits
I64MaxDigits ==
    <<"9", "2", "2", "3", "3", "7", "2", "0", "3", "6", "8", "5", "4", "7", "7", "5", "8", "0", "7">>

\* i64::MIN = -9223372036854775808, the digits of its magnitude
I64MinDigits ==
    <<"9", "2", "2", "3", "3", "7", "2", "0", "3", "6", "8", "5", "4", "7", "7", "5", "8", "0", "8">>

\* whether the magnitude ds, negated when neg, is in the range of i64
FitsI64(ds, neg) ==
    LET d == StripLeadingZeros(ds)
        lim == IF neg THEN I64MinDigits ELSE I64MaxDigits
    IN  \/ Len(d) < Len(lim)
        \/ Len(d) = Len(lim) /\ DigitsLeq(d, lim)

\* str::parse::<i64>: an optional sign, then one or more digits, in range
parse_i64(s) ==
    LET signed == s # <<>> /\ s[1] \in {"-", "+"}
        ds == IF signed THEN Tail(s) ELSE s
        neg == signed /\ s[1] = "-"
    IN  IF ds # <<>> /\ (\A i \in 1..Len(ds) : ds[i] \in Digits) /\ FitsI64(ds, neg)
        THEN [ok |-> TRUE, n |-> IF neg THEN 0 - DigitsVal(ds) ELSE DigitsVal(ds)]
        ELSE [ok |-> FALSE]

\* str::parse::<f64> on a run of digits, `-` and `.` that holds a `.`:
\* an optional sign, digits around exactly one `.`, at least one digit.
\* The value is kept exactly as mantissa and decimal exponent.
parse_f64(s) ==
    LET signed == s # <<>> /\ s[1] \in {"-", "+"}
        b == IF signed THEN Tail(s) ELSE s
        neg == signed /\ s[1] = "-"
        dot == Find(b, ".")
        ip == Take(b, dot)
        fp == Drop(b, dot + 1)
    IN  IF /\ dot >= 0
           /\ \A i \in 1..Len(ip) : ip[i] \in Digits
           /\ \A i \in 1..Len(fp) : fp[i] \in Digits
           /\ Len(ip) + Len(fp) >= 1
        THEN LET f == StripTrailingZeros(fp)
                 m == DigitsVal(ip \o f)
             IN  [ok |-> TRUE, m |-> IF neg THEN 0 - m ELSE m, e |-> Len(f)]
        ELSE [ok |-> FALSE]

\* the characters parse_number accumulates: '0'..='9' | '-' | '.'
NumberChars == Digits \cup {"-", "."}

\* what an iteration of a `loop` leaves when the loop goes on: the cursor and
\* what was collected so far
Continue(rest, res) == [kind |-> "Continue", rest |-> rest, res |-> res]

\* number_iteration taking the end of the input as the end of the number
number_iteration_eof(builder, buffer) ==
    IF buffer # <<>> /\ buffer[1] \in NumberChars
         THEN Continue(Tail(buffer), Append(builder, buffer[1]))
    ELSE IF builder = <<>> THEN Err("InvalidSyntax")
    ELSE IF \E i \in 1..Len(builder) : builder[i] = "."
         THEN LET r == parse_f64(builder)
              IN  IF r.ok THEN Ok(JDecimal(r.m, r.e), buffer) ELSE Err("InvalidSyntax")
    ELSE LET r == parse_i64(builder)
         IN  IF r.ok THEN Ok(JNumber(r.n), buffer) ELSE Err("InvalidSyntax")

\* parse_number, one iteration of its `loop`, with `builder` and `buffer`
number_iteration(builder, buffer) ==
    IF buffer = <<>> THEN Err("EmptyInput")
    ELSE IF buffer[1] \in NumberChars
         THEN Continue(Tail(buffer), Append(builder, buffer[1]))
    ELSE IF builder = <<>> THEN Err("InvalidSyntax")
    ELSE IF \E i \in 1..Len(builder) : builder[i] = "."
         THEN LET r == parse_f64(builder)
              IN  IF r.ok THEN Ok(JDecimal(r.m, r.e), buffer) ELSE Err("InvalidSyntax")
    ELSE LET r == parse_i64(builder)
         IN  IF r.ok THEN Ok(JNumber(r.n), buffer) ELSE Err("InvalidSyntax")

RECURSIVE number_loop(_, _)
\* parse_number, the next iteration after one that did not return
number_next(it) ==
    CHOOSE y \in { IF x.kind = "Continue" THEN number_loop(x.res, x.rest) ELSE x : x \in {it} } : TRUE

\* the `loop` of parse_number
number_loop(builder, buffer) == number_next(number_iteration(builder, buffer))

\* parse_number up to its `loop`: the empty builder, the buffer at the input
number_entry(inp) ==
    IF inp = <<>> THEN Err("EmptyInput") ELSE Continue(inp, <<>>)

\* fn parse_number
parse_number(inp) == number_next(number_entry(inp))

(***************************************************************************)
(* json.rs: parse_array, parse_object and parse_json.                      *)
(***************************************************************************)

RECURSIVE parse_object(_), parse_array(_), object_loop(_, _), array_loop(_, _)

\* `Ok(x) => { input = x.1; JsonType::<Variant>(x.0) }, Err(e) => return Err(e)`;
\* x is the result r, taken once
AsObject(r) == CHOOSE y \in { IF x.kind = "Ok" THEN Ok(JObject(x.val), x.rest) ELSE x : x \in {r} } : TRUE
AsArray(r) == CHOOSE y \in { IF x.kind = "Ok" THEN Ok(JArray(x.val), x.rest) ELSE x : x \in {r} } : TRUE
AsString(r) == CHOOSE y \in { IF x.kind = "Ok" THEN Ok(JString(x.val), x.rest) ELSE x : x \in {r} } : TRUE
AsBoolean(r) == CHOOSE y \in { IF x.kind = "Ok" THEN Ok(JBoolean(x.val), x.rest) ELSE x : x \in {r} } : TRUE

\* array_element with the `[` arm reading a nested array instead of rejecting it
array_element_nested(inp) ==
    IF inp = <<>> THEN Panic
    ELSE IF inp[1] = "{" THEN AsObject(parse_object(inp))
    ELSE IF inp[1] = "[" THEN AsArray(parse_array(inp))
    ELSE IF inp[1] = "\"" THEN AsString(parse_string(inp))
    ELSE IF inp[1] \in {"t", "f"} THEN AsBoolean(parse_boolean(inp))
    ELSE IF inp[1] \in Digits THEN parse_number(inp)
    ELSE Err("UnexpectedToken")

\* parse_array, the `match input.chars().nth(0).unwrap()` that reads one element
array_element(inp) ==
    IF inp = <<>> THEN Panic
    ELSE IF inp[1] = "{" THEN AsObject(parse_object(inp))
    ELSE IF inp[1] = "[" THEN Err("NotSupported")
    ELSE IF inp[1] = "\"" THEN AsString(parse_string(inp))
    ELSE IF inp[1] \in {"t", "f"} THEN AsBoolean(parse_boolean(inp))
    ELSE IF inp[1] \in Digits THEN parse_number(inp)
    ELSE Err("UnexpectedToken")

\* parse_array, the `,` / `]` test after an element; rest is the trimmed input
array_separator(rest, res) ==
    IF rest = <<>> THEN Panic
    ELSE IF rest[1] = "," THEN Continue(TrimStart(Tail(rest)), res)
    ELSE IF rest[1] = "]" THEN Ok(res, TrimStart(Tail(rest)))
    ELSE Err("UnexpectedToken")

\* parse_array, what follows the element match: push the element, trim the input
array_push(el, res) ==
    CHOOSE y \in { IF x.kind # "Ok" THEN x
                   ELSE array_separator(TrimStart(x.rest), Append(res, x.val)) : x \in {el} } : TRUE

\* array_iteration going on at a `,` where an element is due, the `,` left in the input
array_iteration_stays(inp, res) ==
    IF inp # <<>> /\ inp[1] = "]" THEN Ok(res, inp)
    ELSE IF inp # <<>> /\ inp[1] = "," THEN Continue(inp, res)
    ELSE array_push(array_element(inp), res)

\* parse_array, one iteration of its `loop`; the `break` on `]` leaves the `]`
\* in the returned input
array_iteration(inp, res) ==
    IF inp # <<>> /\ inp[1] = "]" THEN Ok(res, inp)
    ELSE array_push(array_element(inp), res)

\* parse_array, the next iteration after one that did not return
array_next(it) ==
    CHOOSE y \in { IF x.kind = "Continue" THEN array_loop(x.rest, x.res) ELSE x : x \in {it} } : TRUE

\* the `loop` of parse_array
array_loop(inp, res) == array_next(array_iteration(inp, res))

\* parse_array up to its `loop`: the `[` test, `input = &input[1..].trim_start()`
array_entry(inp) ==
    IF inp = <<>> THEN Panic
    ELSE IF inp[1] # "[" THEN Err("InvalidSyntax")
    ELSE Continue(TrimStart(Tail(inp)), <<>>)

\* fn parse_array
parse_array(inp) == array_next(array_entry(inp))

\* parse_object, the `let value = if ... else if ...` chain that reads one property value
object_value(inp) ==
    IF inp = <<>> THEN Panic
    ELSE IF inp[1] = "{" THEN AsObject(parse_object(inp))
    ELSE IF inp[1] = "[" THEN AsArray(parse_array(inp))
    ELSE IF inp[1] = "\"" THEN AsString(parse_string(inp))
    ELSE IF inp[1] \in {"t", "f"} THEN AsBoolean(parse_boolean(inp))
    ELSE IF inp[1] \in Digits \/ inp[1] = "-" THEN parse_number(inp)
    ELSE Err("UnexpectedToken")

\* parse_object, the `,` / `}` test after a pair; rest is the trimmed input
object_separator(rest, res) ==
    IF rest = <<>> THEN Panic
    ELSE IF rest[1] = "," THEN Continue(TrimStart(Tail(rest)), res)
    ELSE IF rest[1] = "}" THEN Ok(res, TrimStart(Tail(rest)))
    ELSE Err("UnexpectedToken")

\* parse_object, `result.insert(key.0, value); input = input.trim_start();`
object_insert(v, key, res) ==
    CHOOSE y \in { IF x.kind # "Ok" THEN x
                   ELSE object_separator(TrimStart(x.rest), MapInsert(res, key, x.val)) : x \in {v} } : TRUE

\* object_pair skipping whitespace between the key and the `:`
object_pair_trims(key, res) ==
    IF key.kind # "Ok" THEN key
    ELSE IF TrimStart(key.rest) = <<>> THEN Panic
    ELSE IF TrimStart(key.rest)[1] # ":" THEN Err("MissingToken")
    ELSE object_insert(object_value(TrimStart(Tail(TrimStart(key.rest)))), key.val, res)

\* parse_object, what follows the key: the `:` and the value
object_pair(key, res) ==
    CHOOSE y \in { IF k.kind # "Ok" THEN k
                   ELSE IF k.rest = <<>> THEN Panic
                   ELSE IF k.rest[1] # ":" THEN Err("MissingToken")
                   ELSE object_insert(object_value(TrimStart(Tail(k.rest))), k.val, res) : k \in {key} } : TRUE

\* parse_object, one iteration of its `loop`
object_iteration(inp, res) ==
    IF inp = <<>> THEN Panic
    ELSE IF inp[1] = "}" THEN Ok(res, Tail(inp))
    ELSE object_pair(parse_string(inp), res)

\* parse_object, the next iteration after one that did not return
object_next(it) ==
    CHOOSE y \in { IF x.kind = "Continue" THEN object_loop(x.rest, x.res) ELSE x : x \in {it} } : TRUE

\* the `loop` of parse_object
object_loop(inp, res) == object_next(object_iteration(inp, res))

\* parse_object up to its `loop`: the `{` test, `input = &input[1..].trim_start()`
object_entry(inp) ==
    IF inp = <<>> THEN Panic
    ELSE IF inp[1] # "{" THEN Err("InvalidSyntax")
    ELSE Continue(TrimStart(Tail(inp)), EmptyMap)

\* fn parse_object
parse_object(inp) == object_next(object_entry(inp))

\* what parse_json returns: the value alone, or the error
Value(v) == [kind |-> "Ok", val |-> v]
Returns(r) == IF r.kind = "Ok" THEN Value(r.val) ELSE r

\* parse_json testing `input.is_empty()` where the code tests `input.trim().is_empty()`
parse_json_untrimmed(text) ==
    IF text = <<>> THEN Err("EmptyInput")
    ELSE IF TrimStart(text) = <<>> THEN Panic
    ELSE IF TrimStart(text)[1] = "{" THEN Returns(AsObject(parse_object(TrimStart(text))))
    ELSE IF TrimStart(text)[1] = "[" THEN Returns(AsArray(parse_array(TrimStart(text))))
    ELSE Err("UnexpectedToken")

\* Returns failing when anything but whitespace follows the value
Returns_checked(r) ==
    IF r.kind # "Ok" THEN r
    ELSE IF TrimStart(r.rest) # <<>> THEN Err("UnexpectedToken")
    ELSE Value(r.val)

\* parse_json rejecting text behind the top-level value
parse_json_checks_rest(text) ==
    IF Trim(text) = <<>> THEN Err("EmptyInput")
    ELSE IF TrimStart(text)[1] = "{" THEN Returns_checked(AsObject(parse_object(TrimStart(text))))
    ELSE IF TrimStart(text)[1] = "[" THEN Returns_checked(AsArray(parse_array(TrimStart(text))))
    ELSE Err("UnexpectedToken")

\* pub fn parse_json
parse_json(text) ==
    IF Trim(text) = <<>> THEN Err("EmptyInput")
    ELSE IF TrimStart(text)[1] = "{" THEN Returns(AsObject(parse_object(TrimStart(text))))
    ELSE IF TrimStart(text)[1] = "[" THEN Returns(AsArray(parse_array(TrimStart(text))))
    ELSE Err("UnexpectedToken")

(***************************************************************************)
(* http.rs: text primitives.                                               *)
(***************************************************************************)

UpperLetters == <<"A", "B", "C", "D", "E", "F", "G", "H", "I", "J", "K", "L", "M", "N", "O", "P", "Q", "R", "S", "T", "U", "V", "W", "X", "Y", "Z">>
LowerLetters == <<"a", "b", "c", "d", "e", "f", "g", "h", "i", "j", "k", "l", "m", "n", "o", "p", "q", "r", "s", "t", "u", "v", "w", "x", "y", "z">>

\* char::to_lowercase on ASCII
Lower(c) ==
    IF \E i \in 1..Len(UpperLetters) : UpperLetters[i] = c
    THEN LowerLetters[CHOOSE i \in 1..Len(UpperLetters) : UpperLetters[i] = c]
    ELSE c

\* str::to_lowercase
ToLowercase(s) == [i \in 1..Len(s) |-> Lower(s[i])]

RECURSIVE SplitWhitespace(_)
\* str::split_whitespace: the maximal runs of non-whitespace characters
SplitWhitespace(s) ==
    LET t == TrimStart(s)
    IN  IF t = <<>> THEN <<>>
        ELSE LET n == IF \E i \in 1..Len(t) : IsWhitespace(t[i])
                      THEN CHOOSE i \in 1..Len(t) :
                               IsWhitespace(t[i]) /\ \A j \in 1..(i - 1) : ~IsWhitespace(t[j])
                      ELSE Len(t) + 1
             IN  <<Take(t, n - 1)>> \o SplitWhitespace(Drop(t, n - 1))

RECURSIVE Lines(_)
\* str::lines: split at each "\n", a "\r" before it dropped too; no empty line
\* is produced after a final "\n"
Lines(s) ==
    IF s = <<>> THEN <<>>
    ELSE LET i == Find(s, "\n")
         IN  IF i < 0 THEN <<s>>
             ELSE LET l == Take(s, i)
                  IN  <<IF l # <<>> /\ l[Len(l)] = "\r" THEN Take(l, Len(l) - 1) ELSE l>>
                      \o Lines(Drop(s, i + 1))

RECURSIVE Split(_, _)
\* str::split(c)
Split(s, c) ==
    LET i == Find(s, c)
    IN  IF i < 0 THEN <<s>> ELSE <<Take(s, i)>> \o Split(Drop(s, i + 1), c)

\* str::splitn(2, c)
SplitN2(s, c) ==
    LET i == Find(s, c)
    IN  IF i < 0 THEN <<s>> ELSE <<Take(s, i), Drop(s, i + 1)>>

\* Option::None and Option::Some
None == [some |-> FALSE]
Some(x) == [some |-> TRUE, v |-> x]

(***************************************************************************)
(* http.rs: the value model.                                               *)
(***************************************************************************)

\* HttpMethod::from_str matching the method name in any letter case
HttpMethod_from_str_nocase(t) ==
    LET l == ToLowercase(t)
    IN  CASE l = <<"g", "e", "t">> -> [ok |-> TRUE, m |-> "GET"]
          [] l = <<"p", "o", "s", "t">> -> [ok |-> TRUE, m |-> "POST"]
          [] l = <<"p", "u", "t">> -> [ok |-> TRUE, m |-> "PUT"]
          [] l = <<"d", "e", "l", "e", "t", "e">> -> [ok |-> TRUE, m |-> "DELETE"]
          [] l = <<"h", "e", "a", "d">> -> [ok |-> TRUE, m |-> "HEAD"]
          [] l = <<"o", "p", "t", "i", "o", "n", "s">> -> [ok |-> TRUE, m |-> "OPTIONS"]
          [] l = <<"p", "a", "t", "c", "h">> -> [ok |-> TRUE, m |-> "PATCH"]
          [] l = <<"t", "r", "a", "c", "e">> -> [ok |-> TRUE, m |-> "TRACE"]
          [] l = <<"c", "o", "n", "n", "e", "c", "t">> -> [ok |-> TRUE, m |-> "CONNECT"]
          [] OTHER -> [ok |-> FALSE]

\* HttpMethod::from_str
HttpMethod_from_str(t) ==
    CASE t = <<"G", "E", "T">> -> [ok |-> TRUE, m |-> "GET"]
      [] t = <<"P", "O", "S", "T">> -> [ok |-> TRUE, m |-> "POST"]
      [] t = <<"P", "U", "T">> -> [ok |-> TRUE, m |-> "PUT"]
      [] t = <<"D", "E", "L", "E", "T", "E">> -> [ok |-> TRUE, m |-> "DELETE"]
      [] t = <<"H", "E", "A", "D">> -> [ok |-> TRUE, m |-> "HEAD"]
      [] t = <<"O", "P", "T", "I", "O", "N", "S">> -> [ok |-> TRUE, m |-> "OPTIONS"]
      [] t = <<"P", "A", "T", "C", "H">> -> [ok |-> TRUE, m |-> "PATCH"]
      [] t = <<"T", "R", "A", "C", "E">> -> [ok |-> TRUE, m |-> "TRACE"]
      [] t = <<"C", "O", "N", "N", "E", "C", "T">> -> [ok |-> TRUE, m |-> "CONNECT"]
      [] OTHER -> [ok |-> FALSE]

\* read_http_request, `version = match parts[2]`
HttpVersion_from_str(t) ==
    CASE t = <<"H", "T", "T", "P", "/", "1", ".", "0">> -> [ok |-> TRUE, v |-> "HTTP10"]
      [] t = <<"H", "T", "T", "P", "/", "1", ".", "1">> -> [ok |-> TRUE, v |-> "HTTP11"]
      [] t = <<"H", "T", "T", "P", "/", "2", ".", "0">> -> [ok |-> TRUE, v |-> "HTTP20"]
      [] OTHER -> [ok |-> FALSE]

\* HttpContentType::from_str matching the content type in any letter case
HttpContentType_from_str_nocase(t) ==
    LET l == ToLowercase(t)
    IN  CASE l = <<"t", "e", "x", "t", "/", "h", "t", "m", "l">> -> [ct |-> "TextHtml"]
          [] l = <<"a", "p", "p", "l", "i", "c", "a", "t", "i", "o", "n", "/", "j", "s", "o", "n">> -> [ct |-> "ApplicationJson"]
          [] l = <<"a", "p", "p", "l", "i", "c", "a", "t", "i", "o", "n", "/", "x", "m", "l">> -> [ct |-> "ApplicationXml"]
          [] l = <<"t", "e", "x", "t", "/", "p", "l", "a", "i", "n">> -> [ct |-> "TextPlain"]
          [] l = <<"m", "u", "l", "t", "i", "p", "a", "r", "t", "/", "f", "o", "r", "m", "-", "d", "a", "t", "a">> -> [ct |-> "MultipartFormData"]
          [] l = <<"a", "p", "p", "l", "i", "c", "a", "t", "i", "o", "n", "/", "x", "-", "w", "w", "w", "-", "f", "o", "r", "m", "-", "u", "r", "l", "e", "n", "c", "o", "d", "e", "d">> -> [ct |-> "ApplicationXWwwFormUrlencoded"]
          [] l = <<"t", "e", "x", "t", "/", "e", "v", "e", "n", "t", "-", "s", "t", "r", "e", "a", "m">> -> [ct |-> "EventStream"]
          [] OTHER -> [ct |-> "Other", s |-> t]

\* HttpContentType::from_str
HttpContentType_from_str(t) ==
    CASE t = <<"t", "e", "x", "t", "/", "h", "t", "m", "l">> -> [ct |-> "TextHtml"]
      [] t = <<"a", "p", "p", "l", "i", "c", "a", "t", "i", "o", "n", "/", "j", "s", "o", "n">> -> [ct |-> "ApplicationJson"]
      [] t = <<"a", "p", "p", "l", "i", "c", "a", "t", "i", "o", "n", "/", "x", "m", "l">> -> [ct |-> "ApplicationXml"]
      [] t = <<"t", "e", "x", "t", "/", "p", "l", "a", "i", "n">> -> [ct |-> "TextPlain"]
      [] t = <<"m", "u", "l", "t", "i", "p", "a", "r", "t", "/", "f", "o", "r", "m", "-", "d", "a", "t", "a">> -> [ct |-> "MultipartFormData"]
      [] t = <<"a", "p", "p", "l", "i", "c", "a", "t", "i", "o", "n", "/", "x", "-", "w", "w", "w", "-", "f", "o", "r", "m", "-", "u", "r", "l", "e", "n", "c", "o", "d", "e", "d">> -> [ct |-> "ApplicationXWwwFormUrlencoded"]
      [] t = <<"t", "e", "x", "t", "/", "e", "v", "e", "n", "t", "-", "s", "t", "r", "e", "a", "m">> -> [ct |-> "EventStream"]
      [] OTHER -> [ct |-> "Other", s |-> t]

\* usize::MAX = 18446744073709551615 on a 64-bit target, as its digits
UsizeMaxDigits == <<"1", "8", "4", "4", "6", "7", "4", "4", "0", "7", "3", "7", "0", "9", "5", "5", "1", "6", "1", "5">>

\* str::parse::<usize>: an optional `+`, then one or more digits, in range
parse_usize(s) ==
    LET ds == IF s # <<>> /\ s[1] = "+" THEN Tail(s) ELSE s
        d == StripLeadingZeros(ds)
    IN  IF /\ ds # <<>>
           /\ \A i \in 1..Len(ds) : ds[i] \in Digits
           /\ \/ Len(d) < Len(UsizeMaxDigits)
              \/ Len(d) = Len(UsizeMaxDigits) /\ DigitsLeq(d, UsizeMaxDigits)
        THEN [ok |-> TRUE, n |-> DigitsVal(ds)]
        ELSE [ok |-> FALSE]

\* KnownHeader::from_str matching the name as written, without `to_lowercase()`
KnownHeader_from_str_exact(header_name, header_value) ==
    LET n == header_name
    IN  CASE n = <<"c", "o", "n", "t", "e", "n", "t", "-", "t", "y", "p", "e">> ->
                 [h |-> "ContentType", ct |-> HttpContentType_from_str(header_value)]
          [] n = <<"c", "o", "n", "t", "e", "n", "t", "-", "l", "e", "n", "g", "t", "h">> ->
                 LET r == parse_usize(header_value)
                 IN  IF r.ok THEN [h |-> "ContentLength", len |-> r.n]
                     ELSE [h |-> "Other", s |-> header_value]
          [] n = <<"u", "s", "e", "r", "-", "a", "g", "e", "n", "t">> -> [h |-> "UserAgent", s |-> header_value]
          [] n = <<"a", "c", "c", "e", "p", "t">> -> [h |-> "Accept", s |-> header_value]
          [] n = <<"h", "o", "s", "t">> -> [h |-> "Host", s |-> header_value]
          [] n = <<"a", "u", "t", "h", "o", "r", "i", "z", "a", "t", "i", "o", "n">> -> [h |-> "Authorization", s |-> header_value]
          [] n = <<"c", "a", "c", "h", "e", "-", "c", "o", "n", "t", "r", "o", "l">> -> [h |-> "CacheControl", s |-> header_value]
          [] n = <<"c", "o", "n", "n", "e", "c", "t", "i", "o", "n">> -> [h |-> "Connection", s |-> header_value]
          [] n = <<"c", "o", "o", "k", "i", "e">> -> [h |-> "Cookie", s |-> header_value]
          [] n = <<"r", "e", "f", "e", "r", "e", "r">> -> [h |-> "Referer", s |-> header_value]
          [] OTHER -> [h |-> "Other", s |-> header_value]

\* KnownHeader::from_str
KnownHeader_from_str(header_name, header_value) ==
    LET n == ToLowercase(header_name)
    IN  CASE n = <<"c", "o", "n", "t", "e", "n", "t", "-", "t", "y", "p", "e">> ->
                 [h |-> "ContentType", ct |-> HttpContentType_from_str(header_value)]
          [] n = <<"c", "o", "n", "t", "e", "n", "t", "-", "l", "e", "n", "g", "t", "h">> ->
                 LET r == parse_usize(header_value)
                 IN  IF r.ok THEN [h |-> "ContentLength", len |-> r.n]
                     ELSE [h |-> "Other", s |-> header_value]
          [] n = <<"u", "s", "e", "r", "-", "a", "g", "e", "n", "t">> -> [h |-> "UserAgent", s |-> header_value]
          [] n = <<"a", "c", "c", "e", "p", "t">> -> [h |-> "Accept", s |-> header_value]
          [] n = <<"h", "o", "s", "t">> -> [h |-> "Host", s |-> header_value]
          [] n = <<"a", "u", "t", "h", "o", "r", "i", "z", "a", "t", "i", "o", "n">> -> [h |-> "Authorization", s |-> header_value]
          [] n = <<"c", "a", "c", "h", "e", "-", "c", "o", "n", "t", "r", "o", "l">> -> [h |-> "CacheControl", s |-> header_value]
          [] n = <<"c", "o", "n", "n", "e", "c", "t", "i", "o", "n">> -> [h |-> "Connection", s |-> header_value]
          [] n = <<"c", "o", "o", "k", "i", "e">> -> [h |-> "Cookie", s |-> header_value]
          [] n = <<"r", "e", "f", "e", "r", "e", "r">> -> [h |-> "Referer", s |-> header_value]
          [] OTHER -> [h |-> "Other", s |-> header_value]

RECURSIVE QueryMap(_, _)
\* HttpPath::from_str, the `for pair in query_str.split('&')` loop
QueryMap(pairs, m) ==
    IF pairs = <<>> THEN m
    ELSE LET kv == SplitN2(pairs[1], "=")
         IN  QueryMap(Tail(pairs),
                      MapInsert(m, kv[1], IF Len(kv) = 2 THEN kv[2] ELSE <<>>))

\* HttpPath::from_str leaving the query string in `path`
HttpPath_from_str_keeps_query(p) ==
    LET hash_index == Find(p, "#")
        fragment == IF hash_index >= 0 THEN Some(Drop(p, hash_index + 1)) ELSE None
        full_path == IF hash_index >= 0 THEN Take(p, hash_index) ELSE p
        question_index == Find(full_path, "?")
    IN  [ full_path |-> full_path,
          path      |-> full_path,
          query     |-> IF question_index >= 0
                        THEN Some(QueryMap(Split(Drop(full_path, question_index + 1), "&"),
                                           EmptyMap))
                        ELSE None,
          fragment  |-> fragment ]

\* HttpPath::from_str looking for the `?` before it cuts the fragment off
HttpPath_from_str_query_first(p) ==
    LET question_index == Find(p, "?")
        hash_index == Find(p, "#")
        fragment == IF hash_index >= 0 THEN Some(Drop(p, hash_index + 1)) ELSE None
        full_path == IF hash_index >= 0 THEN Take(p, hash_index) ELSE p
    IN  [ full_path |-> full_path,
          path      |-> IF question_index >= 0 THEN Take(p, question_index) ELSE full_path,
          query     |-> IF question_index >= 0
                        THEN Some(QueryMap(Split(Drop(p, question_index + 1), "&"), EmptyMap))
                        ELSE None,
          fragment  |-> fragment ]

\* HttpPath::from_str
HttpPath_from_str(p) ==
    LET hash_index == Find(p, "#")
        fragment == IF hash_index >= 0 THEN Some(Drop(p, hash_index + 1)) ELSE None
        full_path == IF hash_index >= 0 THEN Take(p, hash_index) ELSE p
        question_index == Find(full_path, "?")
    IN  [ full_path |-> full_path,
          path      |-> IF question_index >= 0 THEN Take(full_path, question_index)
                        ELSE full_path,
          query     |-> IF question_index >= 0
                        THEN Some(QueryMap(Split(Drop(full_path, question_index + 1), "&"),
                                           EmptyMap))
                        ELSE None,
          fragment  |-> fragment ]

\* Err(HttpRequestError::<variant>)
HttpErr(e) == [kind |-> "Err", err |-> e]

\* Ok(HttpRequest { .. })
HttpOk(m, p, v, h, b) ==
    [kind |-> "Ok",
     val |-> [method |-> m, path |-> p, version |-> v, headers |-> h, body |-> b]]

\* the line terminator pushed between body lines
CRLF == <<"\r", "\n">>

(***************************************************************************)
(* The texts parse_json is run on.                                         *)
(*  - every concatenation of at most MaxTokens tokens (well-formed or not);*)
(*  - object texts written out from a list of key/value pairs;             *)
(*  - texts with a `[` in element position of an open array.               *)
(***************************************************************************)

MaxTokens == 4
MaxPairs == 2
MaxDepth == 1

JsonTokens ==
    { <<"{">>, <<"}">>, <<"[">>, <<"]">>, <<":">>, <<",">>, <<" ">>,
      <<"\"", "a", "\"">>, <<"t", "r", "u", "e">>, <<"1">>, <<"-">> }

RECURSIVE Concat(_)
\* the concatenation of a list of texts
Concat(ts) == IF Len(ts) = 0 THEN <<>> ELSE ts[1] \o Concat(Tail(ts))

\* syntax trees of values as a writer puts them down; an object is its list of
\* pairs in source order (a key may repeat)
SObject(pairs) == [t |-> "Object", pairs |-> pairs]
SArray(elems) == [t |-> "Array", elems |-> elems]

DigitChar(d) ==
    CASE d = 0 -> "0" [] d = 1 -> "1" [] d = 2 -> "2" [] d = 3 -> "3" [] d = 4 -> "4"
      [] d = 5 -> "5" [] d = 6 -> "6" [] d = 7 -> "7" [] d = 8 -> "8" [] d = 9 -> "9"

RECURSIVE NatText(_)
\* the decimal digits of a natural number
NatText(n) == IF n < 10 THEN <<DigitChar(n)>> ELSE Append(NatText(n \div 10), DigitChar(n % 10))

\* a signed integer literal
IntText(n) == IF n < 0 THEN <<"-">> \o NatText(0 - n) ELSE NatText(n)

RECURSIVE Pow10(_)
Pow10(e) == IF e = 0 THEN 1 ELSE 10 * Pow10(e - 1)

RECURSIVE PadLeft(_, _)
PadLeft(ds, n) == IF Len(ds) >= n THEN ds ELSE PadLeft(<<"0">> \o ds, n)

\* a signed decimal literal for m / 10^e, e >= 1
DecText(m, e) ==
    LET a == IF m < 0 THEN 0 - m ELSE m
    IN  (IF m < 0 THEN <<"-">> ELSE <<>>)
        \o NatText(a \div Pow10(e)) \o <<".">> \o PadLeft(NatText(a % Pow10(e)), e)

RECURSIVE Render(_, _), RenderPairs(_, _), RenderElems(_, _)
\* the text of a syntax tree; sp is the whitespace put at the join points
\* (after `{`, `[`, `:`, `,` and after each value)
Render(v, sp) ==
    CASE v.t = "Boolean" -> IF v.b THEN <<"t", "r", "u", "e">> ELSE <<"f", "a", "l", "s", "e">>
      [] v.t = "Number"  -> IntText(v.n)
      [] v.t = "Decimal" -> DecText(v.m, v.e)
      [] v.t = "String"  -> <<"\"">> \o v.s \o <<"\"">>
      [] v.t = "Object"  -> <<"{">> \o sp \o RenderPairs(v.pairs, sp) \o <<"}">>
      [] v.t = "Array"   -> <<"[">> \o sp \o RenderElems(v.elems, sp) \o <<"]">>

RenderPairs(ps, sp) ==
    IF ps = <<>> THEN <<>>
    ELSE <<"\"">> \o ps[1].k \o <<"\"", ":">> \o sp \o Render(ps[1].v, sp) \o sp
         \o (IF Len(ps) > 1 THEN <<",">> \o sp \o RenderPairs(Tail(ps), sp) ELSE <<>>)

RenderElems(es, sp) ==
    IF es = <<>> THEN <<>>
    ELSE Render(es[1], sp) \o sp
         \o (IF Len(es) > 1 THEN <<",">> \o sp \o RenderElems(Tail(es), sp) ELSE <<>>)

RECURSIVE Denote(_), DenotePairs(_), DenoteElems(_)
\* the value a syntax tree stands for: an object holds, for each key, the value
\* of the key's last pair
Denote(v) ==
    CASE v.t = "Object" -> JObject(DenotePairs(v.pairs))
      [] v.t = "Array"  -> JArray(DenoteElems(v.elems))
      [] OTHER          -> v

DenotePairs(ps) ==
    LET keys == {ps[i].k : i \in 1..Len(ps)}
        last(k) == CHOOSE i \in 1..Len(ps) :
                       ps[i].k = k /\ \A j \in (i + 1)..Len(ps) : ps[j].k # k
    IN  [k \in keys |-> Denote(ps[last(k)].v)]

DenoteElems(es) == [i \in 1..Len(es) |-> Denote(es[i])]

SrcKeys == { <<"a">>, <<"b">> }

SrcScalars ==
    { JBoolean(TRUE), JBoolean(FALSE), JNumber(1), JNumber(-2), JDecimal(15, 1),
      JString(<<"x">>) }

\* the property values of the written objects: scalars, and objects and arrays of scalars
SrcValues ==
    SrcScalars
    \cup { SObject(<<>>), SObject(<<[k |-> <<"a">>, v |-> JNumber(1)]>>) }
    \cup { SArray(<<>>), SArray(<<JNumber(1)>>), SArray(<<JNumber(-2)>>),
           SArray(<<JBoolean(TRUE), JString(<<"x">>)>>) }

\* a written pair: key and value
SrcPairs == {[k |-> k, v |-> v] : k \in SrcKeys, v \in SrcValues}

Spacings == { <<>>, <<" ">> }

RECURSIVE OpenArrays(_)
\* texts that end in element position of an open array, reached through at most
\* n enclosing objects
OpenArrays(n) ==
    IF n = 0 THEN { <<"[">>, <<"[", "1", ",">>, <<"[", " ", "t", "r", "u", "e", " ", ",", " ">> }
    ELSE LET inner == OpenArrays(n - 1)
         IN  inner
             \cup {<<"{", "\"", "a", "\"", ":">> \o c : c \in inner}
             \cup {<<"[", "{", "\"", "a", "\"", ":", " ">> \o c : c \in inner}

NestedSuffixes ==
    { <<>>, <<"]">>, <<"1", "]", "]">>, <<"[">>, <<"x">> }

\* texts put in value position: written values, and texts that are no value
ElementTexts ==
    {Render(v, <<>>) : v \in SrcScalars}
    \cup { <<"{", "}">>, <<"{", "\"", "a", "\"", ":", "1", "}">> }
    \cup { <<"-", "1">>, <<"-", "2", ".", "5">>, <<"x">>, <<":">>, <<"}">>,
            <<"t", "r", "u">>, <<"n", "u", "l", "l">>, <<".", "5">>, <<"\"", "a">> }

\* the key of the one-property object an element text is compared in
ElementKey == <<"k">>

\* a written pair of a key and a value
Pair(k, v) == [k |-> k, v |-> v]

\* top-level values written in full: objects and arrays with empty arrays,
\* arrays of objects that hold arrays, and plain ones
WrittenTrees ==
    { SObject(<< Pair(<<"k">>, SArray(<<>>)), Pair(<<"j">>, JNumber(1)) >>),
      SArray(<< SObject(<< Pair(<<"k">>, SArray(<<>>)) >>) >>),
      SArray(<<>>),
      SArray(<< SObject(<< Pair(<<"e", "m", "a", "i", "l", "s">>, SArray(<< JString(<<"a">>), JString(<<"b">>) >>)) >>) >>),
      SArray(<< SObject(<< Pair(<<"a">>, SArray(<< JNumber(1) >>)),
                           Pair(<<"b">>, SObject(<< Pair(<<"c">>, SArray(<< JBoolean(TRUE) >>)) >>)) >>),
                JNumber(2) >>),
      SObject(<<>>),
      SArray(<< JNumber(1) >>),
      SObject(<< Pair(<<"a">>, JNumber(1)) >>) }

\* what is written behind the closing bracket of the top-level value
TrailingTexts == { <<>>, <<" ", "x", "y", "z">>, <<" ", "[", "2", "]">>, <<"}">>, <<"]">>, <<",", "1">> }

\* what is written between a key's closing quote and the `:`
KeySpaces == { <<>>, <<" ">>, <<"\t">>, <<" ", " ">> }

\* the texts and how each was written
JsonInput ==
    \/ \E n \in 0..MaxTokens : \E ts \in [1..n -> JsonTokens] :
           /\ input = Concat(ts)
           /\ src = [kind |-> "tokens"]
    \/ \E n \in 0..MaxPairs : \E ps \in [1..n -> SrcPairs] : \E sp \in Spacings :
           /\ input = Render(SObject(ps), sp)
           /\ src = [kind |-> "object", pairs |-> ps]
    \/ \E c \in OpenArrays(MaxDepth) : \E sfx \in NestedSuffixes :
           /\ input = c \o <<"[">> \o sfx
           /\ src = [kind |-> "nested"]
    \/ \E v \in ElementTexts : \E sp \in Spacings :
           /\ input = <<"[">> \o sp \o v \o sp \o <<"]">>
           /\ src = [kind |-> "element", v |-> v, sp |-> sp]
    \/ \E tree \in WrittenTrees : \E sp \in Spacings : \E sfx \in TrailingTexts :
           /\ input = Render(tree, sp) \o sfx
           /\ src = [kind |-> "written", tree |-> tree, sfx |-> sfx]
    \/ \E ws \in KeySpaces : \E v \in SrcScalars : \E sp \in Spacings :
           /\ input = <<"{">> \o sp \o <<"\"", "a", "\"">> \o ws \o <<":">> \o sp \o Render(v, sp) \o sp
                          \o <<",">> \o sp \o <<"\"", "b", "\"", ":">> \o sp \o <<"t", "r", "u", "e">> \o sp \o <<"}">>
           /\ src = [kind |-> "keyspace", ws |-> ws, v |-> v]

(***************************************************************************)
(* Specification of a parse_json call.                                     *)
(***************************************************************************)

NoResult == [kind |-> "None"]

HttpIdle ==
    /\ lines = <<>>
    /\ state = "RequestLine"
    /\ method = "GET"
    /\ path = <<>>
    /\ version = "HTTP11"
    /\ headers = <<>>
    /\ body = [some |-> FALSE]
    /\ seen = <<>>

Init ==
    /\ JsonInput
    /\ pc = "start"
    /\ result = NoResult
    /\ HttpIdle

\* a call of parse_json(input)
ParseJson ==
    /\ pc = "start"
    /\ result' = parse_json(input)
    /\ pc' = "done"
    /\ UNCHANGED <<input, src, httpVars>>

Next == ParseJson

Spec == Init /\ [][Next]_vars

(***************************************************************************)
(* Claims about parse_json.                                                *)
(***************************************************************************)

\* the text is empty or only whitespace
Blank(t) == \A i \in 1..Len(t) : IsWhitespace(t[i])

\* the first non-whitespace character of a text that is not blank
FirstSignificant(t) ==
    t[CHOOSE i \in 1..Len(t) : ~IsWhitespace(t[i]) /\ \A j \in 1..(i - 1) : IsWhitespace(t[j])]

\* texts that run out where the parser looks at the next character
ExhaustedTexts ==
    { <<"{">>, <<"[">>, <<"{", "\"", "a", "\"">>, <<"{", "\"", "a", "\"", ":">>,
      <<"{", "\"", "a", "\"", ":", "t", "r", "u", "e">>, <<"[", "t", "r", "u", "e">>,
      <<"[", "1", ",">> }

\* C1: parse_json returns a value or a ParserError for every text and never
\* faults; a text that runs out at a lookahead point gives UnexpectedToken or
\* EmptyInput.
C1_NeverFaults ==
    pc = "done" =>
        /\ result.kind \in {"Ok", "Err"}
        /\ input \in ExhaustedTexts => result \in {Err("UnexpectedToken"), Err("EmptyInput")}

\* C2: a valid object text parses to the Object that holds, for each distinct
\* key of the text, the value written at the key's last occurrence.
C2_ObjectEntries ==
    (pc = "done" /\ src.kind = "object") =>
        result = Value(Denote(SObject(src.pairs)))

\* C3 as stated: EmptyInput exactly when the text is blank; otherwise
\* UnexpectedToken unless the first non-whitespace character is `{` or `[`.
C3_EmptyInputExactlyWhenBlank ==
    pc = "done" =>
        /\ (result = Err("EmptyInput")) <=> Blank(input)
        /\ (~Blank(input) /\ FirstSignificant(input) \notin {"{", "["})
               => result = Err("UnexpectedToken")

\* C3 as amended: a blank text gives EmptyInput; a text that is not blank
\* gives EmptyInput only from inside an object or array, where a number token
\* runs to the end of the text; a text whose first non-whitespace character
\* is neither `{` nor `[` gives UnexpectedToken.
C3_TopLevelDispatch ==
    pc = "done" =>
        /\ Blank(input) => result = Err("EmptyInput")
        /\ (~Blank(input) /\ result = Err("EmptyInput"))
               => /\ FirstSignificant(input) \in {"{", "["}
                  /\ input[Len(input)] \in NumberChars
        /\ (~Blank(input) /\ FirstSignificant(input) \notin {"{", "["})
               => result = Err("UnexpectedToken")

\* a top-level string after leading whitespace is rejected
C3_Witness ==
    /\ pc = "done"
    /\ input = <<" ", "\"", "a", "\"">>
    /\ result = Err("UnexpectedToken")

\* C4: a `[` in element position of an array, at the top level or below
\* objects, makes the whole call fail with NotSupported.
C4_NestedArrayRejected ==
    (pc = "done" /\ src.kind = "nested") => result = Err("NotSupported")

\* a nested array below an object property is rejected
C4_Witness ==
    /\ pc = "done"
    /\ src.kind = "nested"
    /\ input = <<"{", "\"", "a", "\"", ":", "[", "1", ",", "[", "1", "]", "]">>
    /\ result = Err("NotSupported")

\* the outcome of an array text [v] and of the object text {"k":v} agree
SameOutcome(ra, ro) ==
    /\ ra.kind = ro.kind
    /\ ra.kind = "Err" => ra.err = ro.err
    /\ ra.kind = "Ok" => ra.val = JArray(<<ro.val.o[ElementKey]>>)

\* C5: an array element is read by the same rule as an object property
\* value, nested arrays excepted: the array [v] and the object {"k":v} give
\* the same value or the same error.
C5_SameDispatch ==
    (pc = "done" /\ src.kind = "element") =>
        SameOutcome(result,
                    parse_json(<<"{", "\"">> \o ElementKey \o <<"\"", ":">> \o src.sp
                               \o src.v \o src.sp \o <<"}">>))

(***************************************************************************)
(* The texts read_http_request is run on.                                  *)
(*  - request lines of 1..MaxRequestTokens tokens, alone or before a       *)
(*    header and the blank line;                                           *)
(*  - a well-formed request line followed by up to MaxLines lines.         *)
(***************************************************************************)

MaxRequestTokens == 4
MaxLines == 3

MethodTokens ==
    { <<"G", "E", "T">>, <<"P", "O", "S", "T">>, <<"P", "U", "T">>, <<"D", "E", "L", "E", "T", "E">>, <<"H", "E", "A", "D">>, <<"O", "P", "T", "I", "O", "N", "S">>, <<"P", "A", "T", "C", "H">>, <<"T", "R", "A", "C", "E">>,
      <<"C", "O", "N", "N", "E", "C", "T">>, <<"g", "e", "t">>, <<"G", "e", "t">>, <<"F", "O", "O">> }

TargetTokens == { <<"/">>, <<"/", "p", "a", "g", "e", "#", "s", "e", "c", "t", "i", "o", "n">>, <<"/", "s", "?", "q", "=", "a", "&", "b", "#", "f">> }

VersionTokens == { <<"H", "T", "T", "P", "/", "1", ".", "0">>, <<"H", "T", "T", "P", "/", "1", ".", "1">>, <<"H", "T", "T", "P", "/", "2", ".", "0">>, <<"H", "T", "T", "P", "/", "3", ".", "0">>, <<"h", "t", "t", "p", "/", "1", ".", "1">> }

\* the tokens written at position i of a request line
RequestTokens(i) ==
    CASE i = 1 -> MethodTokens \cup { <<"/">> }
      [] i = 2 -> TargetTokens
      [] i = 3 -> VersionTokens \cup { <<"G", "E", "T">> }
      [] OTHER -> { <<"x">> }

RECURSIVE RequestLines(_)
\* the token lists of exactly n tokens
RequestLines(n) ==
    IF n = 0 THEN {<<>>}
    ELSE {Append(ts, t) : ts \in RequestLines(n - 1), t \in RequestTokens(n)}

RECURSIVE JoinWith(_, _)
\* the texts of a list joined by a separator
JoinWith(ts, sep) ==
    IF Len(ts) = 0 THEN <<>>
    ELSE IF Len(ts) = 1 THEN ts[1]
    ELSE ts[1] \o sep \o JoinWith(Tail(ts), sep)

TokenSeparators == { <<" ">>, <<"\t", " ">> }

LeadingTexts == { <<>>, <<"\r", "\n", " ", " ">> }

FollowingTexts == { <<>>, <<"\r", "\n", "H", "o", "s", "t", ":", " ", "a", "\r", "\n", "\r", "\n">> }

GoodRequestLines ==
    { << <<"G", "E", "T">>, <<"/">>, <<"H", "T", "T", "P", "/", "1", ".", "1">> >>, << <<"P", "O", "S", "T">>, <<"/", "s", "?", "q", "=", "a", "&", "b", "#", "f">>, <<"H", "T", "T", "P", "/", "1", ".", "0">> >> }

HttpLines ==
    { <<>>, <<"H", "o", "s", "t", ":", " ", "a">>, <<"H", "o", "s", "t", ":", " ", "b">>, <<"C", "o", "n", "t", "e", "n", "t", "-", "L", "e", "n", "g", "t", "h", ":", " ", "1">>, <<" ", "x", " ", "y", " ">>, <<"a", "b">>, <<" ", " ">> }

MaxHeaderLines == 2

\* header lines as a client writes them, and lines that are no header
HeaderLines ==
    { <<"H", "o", "s", "t", ":", " ", "a">>, <<"h", "o", "s", "t", ":", "b">>, <<"H", "o", "s", "t", ":", " ", "a", ":", "8">>, <<" ", "X", "-", "A", " ", ":", " ", "y", ":", "z", " ">>, <<":">>, <<"a", "b">>,
      <<"C", "o", "n", "t", "e", "n", "t", "-", "L", "e", "n", "g", "t", "h", ":", " ", "1", "2">>, <<"c", "o", "n", "t", "e", "n", "t", "-", "l", "e", "n", "g", "t", "h", ":", " ", "1", "x">>, <<"C", "o", "n", "t", "e", "n", "t", "-", "L", "e", "n", "g", "t", "h", ":", " ", "+", "1">>,
      <<"C", "o", "n", "t", "e", "n", "t", "-", "L", "e", "n", "g", "t", "h", ":", " ", "9", "9", "9", "9", "9", "9", "9", "9", "9", "9", "9", "9", "9", "9", "9", "9", "9", "9", "9", "9">>,
      <<"C", "O", "N", "T", "E", "N", "T", "-", "T", "Y", "P", "E", ":", " ", "t", "e", "x", "t", "/", "h", "t", "m", "l">>, <<"C", "o", "n", "t", "e", "n", "t", "-", "T", "y", "p", "e", ":", " ", "t", "e", "x", "t", "/", "x">>,
      <<"U", "s", "e", "r", "-", "A", "g", "e", "n", "t", ":", " ", "u">>, <<"A", "c", "c", "e", "p", "t", ":", " ", "*", "/", "*">>, <<"A", "u", "t", "h", "o", "r", "i", "z", "a", "t", "i", "o", "n", ":", " ", "k">>, <<"C", "a", "c", "h", "e", "-", "C", "o", "n", "t", "r", "o", "l", ":", " ", "n", "o">>,
      <<"C", "o", "n", "n", "e", "c", "t", "i", "o", "n", ":", " ", "c", "l", "o", "s", "e">>, <<"C", "o", "o", "k", "i", "e", ":", " ", "c", "=", "1">>, <<"R", "e", "f", "e", "r", "e", "r", ":", " ", "r">> }

HeaderRequestLine == << <<"G", "E", "T">>, <<"/">>, <<"H", "T", "T", "P", "/", "1", ".", "1">> >>

LineTerminators == { <<"\r", "\n">>, <<"\n">> }

RECURSIVE Terminated(_, _)
\* each line of a list behind a line terminator
Terminated(ls, nl) ==
    IF Len(ls) = 0 THEN <<>> ELSE nl \o ls[1] \o Terminated(Tail(ls), nl)

\* the texts and how each was written
HttpInput ==
    \/ \E n \in 1..MaxRequestTokens : \E ts \in RequestLines(n) :
       \E sep \in TokenSeparators : \E lead \in LeadingTexts : \E follow \in FollowingTexts :
           /\ input = lead \o JoinWith(ts, sep) \o follow
           /\ src = [kind |-> "reqline", toks |-> ts]
    \/ \E ts \in GoodRequestLines : \E n \in 0..MaxLines : \E ls \in [1..n -> HttpLines] :
       \E nl \in LineTerminators : \E last \in BOOLEAN :
           /\ input = JoinWith(ts, <<" ">>) \o Terminated(ls, nl) \o (IF last THEN nl ELSE <<>>)
           /\ src = [kind |-> "message", toks |-> ts, ls |-> ls, last |-> last]
    \/ \E n \in 0..MaxHeaderLines : \E ls \in [1..n -> HeaderLines] :
           /\ input = JoinWith(HeaderRequestLine, <<" ">>) \o Terminated(ls, CRLF) \o CRLF \o CRLF
           /\ src = [kind |-> "headers", toks |-> HeaderRequestLine, ls |-> ls]

(***************************************************************************)
(* Specification of a read_http_request call: one step per line of the     *)
(* `for line in input.lines()` loop, then the return.                      *)
(***************************************************************************)

InitHttp ==
    /\ HttpInput
    /\ pc = "lines"
    /\ result = NoResult
    /\ lines = Lines(TrimStart(input))
    /\ state = "RequestLine"
    /\ method = "GET"
    /\ path = HttpPath_from_str(<<"/">>)
    /\ version = "HTTP11"
    /\ headers = EmptyMap
    /\ body = None
    /\ seen = <<>>

\* `return Err(..)` / `?` out of the loop
Fail(e) ==
    /\ result' = HttpErr(e)
    /\ pc' = "done"
    /\ UNCHANGED <<lines, state, method, path, version, headers, body>>

\* the history of the lines read, each with the state it was read in
Read(line) == seen' = Append(seen, [line |-> line, st |-> state])

\* the ParserState::RequestLine arm
ReadRequestLine ==
    /\ pc = "lines"
    /\ lines # <<>>
    /\ state = "RequestLine"
    /\ Read(Head(lines))
    /\ LET parts == SplitWhitespace(Head(lines))
       IN  IF Len(parts) # 3 THEN Fail("InvalidRequest")
           ELSE IF ~HttpMethod_from_str(parts[1]).ok THEN Fail("InvalidMethod")
           ELSE IF ~HttpVersion_from_str(parts[3]).ok THEN Fail("InvalidVersion")
           ELSE /\ method' = HttpMethod_from_str(parts[1]).m
                /\ path' = HttpPath_from_str(parts[2])
                /\ version' = HttpVersion_from_str(parts[3]).v
                /\ state' = "Headers"
                /\ lines' = Tail(lines)
                /\ UNCHANGED <<pc, result, headers, body>>
    /\ UNCHANGED <<input, src>>

\* ReadHeaderLine passing over a line without `:` instead of failing
ReadHeaderLine_skips ==
    /\ pc = "lines"
    /\ lines # <<>>
    /\ state = "Headers"
    /\ Read(Head(lines))
    /\ IF Head(lines) = <<>>
       THEN /\ state' = "Body"
            /\ lines' = Tail(lines)
            /\ UNCHANGED <<pc, result, method, path, version, headers, body>>
       ELSE LET parts == SplitN2(Head(lines), ":")
            IN  /\ headers' = IF Len(parts) # 2 THEN headers
                              ELSE MapInsert(headers, Trim(parts[1]),
                                             KnownHeader_from_str(Trim(parts[1]), Trim(parts[2])))
                /\ lines' = Tail(lines)
                /\ UNCHANGED <<pc, result, state, method, path, version, body>>
    /\ UNCHANGED <<input, src>>

\* ReadHeaderLine starting an empty body at the blank line
ReadHeaderLine_opens_body ==
    /\ pc = "lines"
    /\ lines # <<>>
    /\ state = "Headers"
    /\ Read(Head(lines))
    /\ IF Head(lines) = <<>>
       THEN /\ state' = "Body"
            /\ body' = Some(<<>>)
            /\ lines' = Tail(lines)
            /\ UNCHANGED <<pc, result, method, path, version, headers>>
       ELSE LET parts == SplitN2(Head(lines), ":")
            IN  IF Len(parts) # 2 THEN Fail("InvalidHeader")
                ELSE /\ headers' = MapInsert(headers, Trim(parts[1]),
                                             KnownHeader_from_str(Trim(parts[1]), Trim(parts[2])))
                     /\ lines' = Tail(lines)
                     /\ UNCHANGED <<pc, result, state, method, path, version, body>>
    /\ UNCHANGED <<input, src>>

\* the ParserState::Headers arm
ReadHeaderLine ==
    /\ pc = "lines"
    /\ lines # <<>>
    /\ state = "Headers"
    /\ Read(Head(lines))
    /\ IF Head(lines) = <<>>
       THEN /\ state' = "Body"
            /\ lines' = Tail(lines)
            /\ UNCHANGED <<pc, result, method, path, version, headers, body>>
       ELSE LET parts == SplitN2(Head(lines), ":")
            IN  IF Len(parts) # 2 THEN Fail("InvalidHeader")
                ELSE /\ headers' = MapInsert(headers, Trim(parts[1]),
                                             KnownHeader_from_str(Trim(parts[1]), Trim(parts[2])))
                     /\ lines' = Tail(lines)
                     /\ UNCHANGED <<pc, result, state, method, path, version, body>>
    /\ UNCHANGED <<input, src>>

\* body_push joining the lines with "\n" alone
body_push_lf(b, line) ==
    IF b.some THEN Some(b.v \o <<"\n">> \o Trim(line)) ELSE Some(Trim(line))

\* body_push pushing the line as it is, without `trim()`
body_push_untrimmed(b, line) ==
    IF b.some THEN Some(b.v \o CRLF \o line) ELSE Some(line)

\* the ParserState::Body arm, the value of `body` after a line
body_push(b, line) ==
    IF b.some THEN Some(b.v \o CRLF \o Trim(line)) ELSE Some(Trim(line))

\* ReadBodyLine with an empty line taking the parser back to the headers
ReadBodyLine_reopens ==
    /\ pc = "lines"
    /\ lines # <<>>
    /\ state = "Body"
    /\ Read(Head(lines))
    /\ IF Head(lines) = <<>>
       THEN state' = "Headers" /\ body' = body
       ELSE state' = state /\ body' = body_push(body, Head(lines))
    /\ lines' = Tail(lines)
    /\ UNCHANGED <<input, src, pc, result, method, path, version, headers>>

\* the ParserState::Body arm
ReadBodyLine ==
    /\ pc = "lines"
    /\ lines # <<>>
    /\ state = "Body"
    /\ Read(Head(lines))
    /\ body' = body_push(body, Head(lines))
    /\ lines' = Tail(lines)
    /\ UNCHANGED <<input, src, pc, result, state, method, path, version, headers>>

\* the loop has read every line: Ok(HttpRequest { .. })
Return ==
    /\ pc = "lines"
    /\ lines = <<>>
    /\ result' = HttpOk(method, path, version, headers, body)
    /\ pc' = "done"
    /\ UNCHANGED <<input, src, httpVars>>

NextHttp == ReadRequestLine \/ ReadHeaderLine \/ ReadBodyLine \/ Return

SpecHttp == InitHttp /\ [][NextHttp]_vars

(***************************************************************************)
(* Claims about read_http_request.                                         *)
(***************************************************************************)

\* the call returned a request
Returned == pc = "done" /\ result.kind = "Ok"

\* C6: the full_path of a parsed request is the raw request-target token of
\* the request line, query string and `#fragment` included.
C6_FullPathIsRawTarget ==
    Returned => result.val.path.full_path = src.toks[2]

\* the method and version tokens the request line accepts
MethodNames ==
    { <<"G", "E", "T">>, <<"P", "O", "S", "T">>, <<"P", "U", "T">>, <<"D", "E", "L", "E", "T", "E">>, <<"H", "E", "A", "D">>, <<"O", "P", "T", "I", "O", "N", "S">>, <<"P", "A", "T", "C", "H">>, <<"T", "R", "A", "C", "E">>,
      <<"C", "O", "N", "N", "E", "C", "T">> }

VersionNames == { <<"H", "T", "T", "P", "/", "1", ".", "0">>, <<"H", "T", "T", "P", "/", "1", ".", "1">>, <<"H", "T", "T", "P", "/", "2", ".", "0">> }

RequestLineErrors ==
    { HttpErr("InvalidRequest"), HttpErr("InvalidMethod"), HttpErr("InvalidVersion") }

\* C7: once the request line is read: not exactly 3 tokens gives
\* InvalidRequest; else a token 0 that is no method name gives InvalidMethod;
\* else a token 2 that is no version name gives InvalidVersion; else the
\* parser is past the request line with none of these errors.
C7_RequestLineOrder ==
    Len(seen) >= 1 =>
        IF Len(src.toks) # 3 THEN result = HttpErr("InvalidRequest")
        ELSE IF src.toks[1] \notin MethodNames THEN result = HttpErr("InvalidMethod")
        ELSE IF src.toks[3] \notin VersionNames THEN result = HttpErr("InvalidVersion")
        ELSE /\ state \in {"Headers", "Body"}
             /\ result \notin RequestLineErrors

\* an unknown method before an unknown version is reported as InvalidMethod
C7_Witness ==
    /\ pc = "done"
    /\ src.toks = << <<"F", "O", "O">>, <<"/">>, <<"H", "T", "T", "P", "/", "3", ".", "0">> >>
    /\ result = HttpErr("InvalidMethod")

\* the order of the parser states
Rank(st) == CASE st = "RequestLine" -> 0 [] st = "Headers" -> 1 [] st = "Body" -> 2

\* one step of the loop, with the line it read
C8_Step ==
    /\ Rank(state') >= Rank(state)
    /\ Len(seen') = Len(seen) + 1 =>
           LET line == seen'[Len(seen')].line
           IN  /\ (state = "RequestLine") <=> (Len(seen) = 0)
               /\ (state = "Headers" /\ line # <<>>) => state' = "Headers"
               /\ (state = "Headers" /\ line = <<>>) => (state' = "Body" /\ body' = body)
               /\ (state = "Body") =>
                      /\ state' = "Body"
                      /\ body'.some /\ body' # body
                      /\ UNCHANGED <<method, path, version, headers>>

\* C8: the parser state only moves forward RequestLine -> Headers -> Body:
\* exactly the first line is read as the request line, the first empty line
\* after it switches to Body without entering the body, and every line read
\* in Body goes to the body and leaves headers and request line fields alone.
C8_ForwardOnly == [][C8_Step]_vars

\* a header-like line and an empty line were read as body text
C8_Witness ==
    /\ Returned
    /\ Len(seen) = 4
    /\ seen[2] = [line |-> <<>>, st |-> "Headers"]
    /\ seen[3] = [line |-> <<"H", "o", "s", "t", ":", " ", "b">>, st |-> "Body"]
    /\ seen[4] = [line |-> <<>>, st |-> "Body"]
    /\ result.val.headers = EmptyMap
    /\ result.val.body = Some(<<"H", "o", "s", "t", ":", " ", "b", "\r", "\n">>)

\* the lines of a written message after its request line
WrittenLines ==
    IF ~src.last /\ src.ls # <<>> /\ src.ls[Len(src.ls)] = <<>>
    THEN SubSeq(src.ls, 1, Len(src.ls) - 1)
    ELSE src.ls

\* the lines after the first empty line
BodyLines ==
    LET ls == WrittenLines
    IN  IF \E i \in 1..Len(ls) : ls[i] = <<>>
        THEN LET k == CHOOSE i \in 1..Len(ls) : ls[i] = <<>> /\ \A j \in 1..(i - 1) : ls[j] # <<>>
             IN  SubSeq(ls, k + 1, Len(ls))
        ELSE <<>>

\* a message with at least one line after the blank line was parsed
BodyRead == Returned /\ src.kind = "message" /\ BodyLines # <<>>

\* C9 as stated: the body is the remaining lines, unchanged, joined by "\r\n".
C9_BodyIsRemainder ==
    BodyRead => result.val.body = Some(JoinWith(BodyLines, CRLF))

\* C9 as amended: the body is the remaining lines, each without its leading
\* and trailing whitespace, joined by "\r\n"; no line is left out, whatever
\* Content-Length declares.
C9_BodyIsTrimmedRemainder ==
    BodyRead =>
        result.val.body = Some(JoinWith([i \in 1..Len(BodyLines) |-> Trim(BodyLines[i])], CRLF))

\* a body longer than the declared Content-Length is kept whole
C9_Witness ==
    /\ BodyRead
    /\ WrittenLines = << <<"C", "o", "n", "t", "e", "n", "t", "-", "L", "e", "n", "g", "t", "h", ":", " ", "1">>, <<>>, <<"a", "b">> >>
    /\ result.val.headers = (<<"C", "o", "n", "t", "e", "n", "t", "-", "L", "e", "n", "g", "t", "h">> :> [h |-> "ContentLength", len |-> 1])
    /\ result.val.body = Some(<<"a", "b">>)

RECURSIVE SplitCRLF(_)
\* the segments of a text between its "\r\n"
SplitCRLF(t) ==
    IF \E i \in 1..(Len(t) - 1) : t[i] = "\r" /\ t[i + 1] = "\n"
    THEN LET k == CHOOSE i \in 1..(Len(t) - 1) :
                      /\ t[i] = "\r" /\ t[i + 1] = "\n"
                      /\ \A j \in 1..(i - 1) : ~(t[j] = "\r" /\ t[j + 1] = "\n")
         IN  <<SubSeq(t, 1, k - 1)>> \o SplitCRLF(SubSeq(t, k + 2, Len(t)))
    ELSE <<t>>

RECURSIVE Strip(_)
\* a text without its leading and trailing whitespace
Strip(t) ==
    IF t # <<>> /\ IsWhitespace(t[1]) THEN Strip(Tail(t))
    ELSE IF t # <<>> /\ IsWhitespace(t[Len(t)]) THEN Strip(SubSeq(t, 1, Len(t) - 1))
    ELSE t

\* C10: the body holds one segment per body line, the line stripped of its
\* leading and trailing whitespace; a final whitespace-only line gives an
\* empty last segment, so a body of several lines then ends in "\r\n".
C10_BodyLinesStripped ==
    BodyRead =>
        LET b == result.val.body.v
            segs == SplitCRLF(b)
        IN  /\ Len(segs) = Len(BodyLines)
            /\ \A i \in 1..Len(segs) : segs[i] = Strip(BodyLines[i])
            /\ (Len(BodyLines) >= 2 /\ Blank(BodyLines[Len(BodyLines)]))
                   => SubSeq(b, Len(b) - 1, Len(b)) = CRLF

\* an indented body line before a final whitespace-only line
C10_Witness ==
    /\ BodyRead
    /\ BodyLines = << <<" ", "x", " ", "y", " ">>, <<" ", " ">> >>
    /\ result.val.body = Some(<<"x", " ", "y", "\r", "\n">>)

(***************************************************************************)
(* Claims about the header lines and the body of read_http_request.        *)
(***************************************************************************)

\* a request with written header lines was read to its end or to a failure
HeadersRead == pc = "done" /\ src.kind = "headers"

HasColon(l) == \E i \in 1..Len(l) : l[i] = ":"

\* the position of the first `:` of a line
FirstColon(l) == CHOOSE i \in 1..Len(l) : l[i] = ":" /\ \A j \in 1..(i - 1) : l[j] # ":"

\* the name and the value a header line is written with
NameOf(l) == Strip(SubSeq(l, 1, FirstColon(l) - 1))
ValueOf(l) == Strip(SubSeq(l, FirstColon(l) + 1, Len(l)))

\* no later written line carries the name of line i
LastOfName(ls, i) == \A j \in (i + 1)..Len(ls) : NameOf(ls[j]) # NameOf(ls[i])

\* C11: in the Headers state a non-empty line without `:` makes the whole
\* call fail with InvalidHeader, the result holding no request; when every
\* line has a `:`, each line is split at its first `:` only, and what follows
\* it, further `:` included, is the header value.
C11_MalformedHeaderFails ==
    HeadersRead =>
        IF \E i \in 1..Len(src.ls) : ~HasColon(src.ls[i])
        THEN result = HttpErr("InvalidHeader")
        ELSE /\ result.kind = "Ok"
             /\ \A i \in 1..Len(src.ls) :
                    /\ NameOf(src.ls[i]) \in DOMAIN result.val.headers
                    /\ (LastOfName(src.ls, i)
                            /\ "s" \in DOMAIN result.val.headers[NameOf(src.ls[i])])
                           => result.val.headers[NameOf(src.ls[i])].s = ValueOf(src.ls[i])

\* a header with two `:` was taken, then a line without `:` failed the call
C11_Witness ==
    /\ HeadersRead
    /\ src.ls = << <<"H", "o", "s", "t", ":", " ", "a", ":", "8">>, <<"a", "b">> >>
    /\ headers = (<<"H", "o", "s", "t">> :> [h |-> "Host", s |-> <<"a", ":", "8">>])
    /\ result = HttpErr("InvalidHeader")

\* the header names with a variant that carries the raw value
StringHeaders ==
    { << <<"u", "s", "e", "r", "-", "a", "g", "e", "n", "t">>, "UserAgent" >>, << <<"a", "c", "c", "e", "p", "t">>, "Accept" >>, << <<"h", "o", "s", "t">>, "Host" >>,
      << <<"a", "u", "t", "h", "o", "r", "i", "z", "a", "t", "i", "o", "n">>, "Authorization" >>, << <<"c", "a", "c", "h", "e", "-", "c", "o", "n", "t", "r", "o", "l">>, "CacheControl" >>,
      << <<"c", "o", "n", "n", "e", "c", "t", "i", "o", "n">>, "Connection" >>, << <<"c", "o", "o", "k", "i", "e">>, "Cookie" >>,
      << <<"r", "e", "f", "e", "r", "e", "r">>, "Referer" >> }

\* the recognized content types
MimeTypes ==
    { << <<"t", "e", "x", "t", "/", "h", "t", "m", "l">>, "TextHtml" >>, << <<"a", "p", "p", "l", "i", "c", "a", "t", "i", "o", "n", "/", "j", "s", "o", "n">>, "ApplicationJson" >>,
      << <<"a", "p", "p", "l", "i", "c", "a", "t", "i", "o", "n", "/", "x", "m", "l">>, "ApplicationXml" >>, << <<"t", "e", "x", "t", "/", "p", "l", "a", "i", "n">>, "TextPlain" >>,
      << <<"m", "u", "l", "t", "i", "p", "a", "r", "t", "/", "f", "o", "r", "m", "-", "d", "a", "t", "a">>, "MultipartFormData" >>,
      << <<"a", "p", "p", "l", "i", "c", "a", "t", "i", "o", "n", "/", "x", "-", "w", "w", "w", "-", "f", "o", "r", "m", "-", "u", "r", "l", "e", "n", "c", "o", "d", "e", "d">>, "ApplicationXWwwFormUrlencoded" >>,
      << <<"t", "e", "x", "t", "/", "e", "v", "e", "n", "t", "-", "s", "t", "r", "e", "a", "m">>, "EventStream" >> }

\* the content type a text stands for
ContentTypeOf(v) ==
    IF \E e \in MimeTypes : e[1] = v
    THEN [ct |-> (CHOOSE e \in MimeTypes : e[1] = v)[2]]
    ELSE [ct |-> "Other", s |-> v]

\* a text that is the decimal writing of an unsigned 64-bit integer
IsUnsigned(v) ==
    LET d == IF v # <<>> /\ v[1] = "+" THEN Tail(v) ELSE v
    IN  d # <<>> /\ Len(d) < 20 /\ \A i \in 1..Len(d) : d[i] \in Digits

\* the number such a text writes
UnsignedOf(v) == DigitsVal(IF v[1] = "+" THEN Tail(v) ELSE v)

\* the header value a name and a value stand for
HeaderOf(name, value) ==
    LET l == ToLowercase(name)
    IN  IF l = <<"c", "o", "n", "t", "e", "n", "t", "-", "t", "y", "p", "e">> THEN [h |-> "ContentType", ct |-> ContentTypeOf(value)]
        ELSE IF l = <<"c", "o", "n", "t", "e", "n", "t", "-", "l", "e", "n", "g", "t", "h">>
        THEN IF IsUnsigned(value) THEN [h |-> "ContentLength", len |-> UnsignedOf(value)]
             ELSE [h |-> "Other", s |-> value]
        ELSE IF \E e \in StringHeaders : e[1] = l
        THEN [h |-> (CHOOSE e \in StringHeaders : e[1] = l)[2], s |-> value]
        ELSE [h |-> "Other", s |-> value]

\* one step of the loop on a header line with a `:`
C12_Step ==
    (/\ state = "Headers"
     /\ Len(seen') = Len(seen) + 1
     /\ HasColon(seen'[Len(seen')].line))
        => LET line == seen'[Len(seen')].line
           IN  /\ DOMAIN headers' = DOMAIN headers \cup {NameOf(line)}
               /\ headers'[NameOf(line)] = HeaderOf(NameOf(line), ValueOf(line))

LastLineOf(ls, n) == ls[CHOOSE i \in 1..Len(ls) : NameOf(ls[i]) = n /\ LastOfName(ls, i)]

\* C13: after any sequence of header lines the mapping holds exactly one
\* entry per written name, and the entry is the one the last line with that
\* name gives; it does not depend on the earlier lines with the name.
C13_LastHeaderWins ==
    (HeadersRead /\ result.kind = "Ok") =>
        /\ DOMAIN result.val.headers = {NameOf(src.ls[i]) : i \in 1..Len(src.ls)}
        /\ \A n \in DOMAIN result.val.headers :
               result.val.headers[n] = HeaderOf(n, ValueOf(LastLineOf(src.ls, n)))

\* two lines with the name Host: the value of the second is kept
C13_Witness ==
    /\ HeadersRead
    /\ src.ls = << <<"H", "o", "s", "t", ":", " ", "a">>, <<"H", "o", "s", "t", ":", " ", "a", ":", "8">> >>
    /\ result.kind = "Ok"
    /\ result.val.headers = (<<"H", "o", "s", "t">> :> [h |-> "Host", s |-> <<"a", ":", "8">>])

\* C14: the body is Some exactly when a line was read in the Body state; it
\* is None when no line follows the blank line that ends the headers and
\* when the input has no blank line.
C14_BodyOnlyFromBodyLines ==
    Returned =>
        /\ result.val.body.some <=> \E i \in 1..Len(seen) : seen[i].st = "Body"
        /\ (src.kind = "message" /\ BodyLines = <<>>) => result.val.body = None
        /\ src.kind \in {"reqline", "headers"} => result.val.body = None

\* the blank line ended the headers and the input ended there
C14_Witness ==
    /\ Returned
    /\ src.kind = "message"
    /\ src.ls = << <<"H", "o", "s", "t", ":", " ", "a">>, <<>> >>
    /\ src.last
    /\ state = "Body"
    /\ result.val.body = None

(***************************************************************************)
(* Specification of a HttpPath::from_str call on a request target.         *)
(***************************************************************************)

MaxTargetLen == 6

TargetChars == {"a", "?", "#", "=", "&"}

\* targets written out in full
NamedTargets == { <<"/", "p", "?", "x", "=", "1", "#", "f", "r", "a", "g">>, <<"/", "s", "?", "q", "=", "a", "&", "b", "&", "q", "=", "c", "#", "f">>, <<"/", "p", "a", "g", "e", "#", "s", "e", "c", "t", "i", "o", "n">>, <<"/", "a", "/", "b">> }

\* the request targets: `/` and up to MaxTargetLen further characters
PathInput ==
    \/ \E n \in 0..MaxTargetLen : \E t \in [1..n -> TargetChars] :
           /\ input = <<"/">> \o t
           /\ src = [kind |-> "target", named |-> FALSE]
    \/ \E t \in NamedTargets :
           /\ input = t
           /\ src = [kind |-> "target", named |-> TRUE]

InitPath ==
    /\ PathInput
    /\ pc = "start"
    /\ result = NoResult
    /\ HttpIdle

\* a call of HttpPath::from_str(input)
ParsePath ==
    /\ pc = "start"
    /\ path' = HttpPath_from_str(input)
    /\ pc' = "done"
    /\ UNCHANGED <<input, src, result, lines, state, method, version, headers, body, seen>>

NextPath == ParsePath

SpecPath == InitPath /\ [][NextPath]_vars

(***************************************************************************)
(* Claims about HttpPath::from_str.                                        *)
(***************************************************************************)

PathParsed == pc = "done" /\ src.kind = "target"

Contains(t, c) == \E i \in 1..Len(t) : t[i] = c

\* the position of the first c in a text that contains it
FirstPos(t, c) == CHOOSE i \in 1..Len(t) : t[i] = c /\ \A j \in 1..(i - 1) : t[j] # c

\* the text before the first c (the whole text without a c), the text after it
BeforeFirst(t, c) == IF Contains(t, c) THEN SubSeq(t, 1, FirstPos(t, c) - 1) ELSE t
AfterFirst(t, c) == SubSeq(t, FirstPos(t, c) + 1, Len(t))

\* the positions at which a `&`-separated pair of a query text ends
PairEnds(q) == {i \in 1..Len(q) : q[i] = "&"} \cup {Len(q) + 1}

\* the pair that ends at position e
PairAt(q, e) ==
    LET b == IF \E i \in 1..(e - 1) : q[i] = "&"
             THEN CHOOSE i \in 1..(e - 1) : q[i] = "&" /\ \A j \in (i + 1)..(e - 1) : q[j] # "&"
             ELSE 0
    IN  SubSeq(q, b + 1, e - 1)

KeyOf(p) == BeforeFirst(p, "=")
ValOf(p) == IF Contains(p, "=") THEN AfterFirst(p, "=") ELSE <<>>

\* the value of the last pair of q with key k
LastValue(q, k) ==
    LET e == CHOOSE e \in PairEnds(q) :
                 /\ KeyOf(PairAt(q, e)) = k
                 /\ \A f \in PairEnds(q) : f > e => KeyOf(PairAt(q, f)) # k
    IN  ValOf(PairAt(q, e))

\* C15: the query is present exactly when the target has a `?` before any
\* `#`; it then has one entry per key of the `&`-separated pairs, each pair
\* split at its first `=`, a pair without `=` having the empty value and a
\* repeated key its last value; path is the target without query and fragment.
C15_QueryParsed ==
    PathParsed =>
        LET t == BeforeFirst(input, "#")
        IN  /\ path.query.some <=> Contains(t, "?")
            /\ path.path = BeforeFirst(t, "?")
            /\ Contains(t, "?") =>
                   LET q == AfterFirst(t, "?")
                   IN  /\ DOMAIN path.query.v = {KeyOf(PairAt(q, e)) : e \in PairEnds(q)}
                       /\ \A k \in DOMAIN path.query.v : path.query.v[k] = LastValue(q, k)

\* a repeated key and a pair without `=`
C15_Witness ==
    /\ PathParsed
    /\ input = <<"/", "s", "?", "q", "=", "a", "&", "b", "&", "q", "=", "c", "#", "f">>
    /\ path.path = <<"/", "s">>
    /\ path.query = Some(<<"q">> :> <<"c">> @@ <<"b">> :> <<>>)

\* C16: the fragment is present exactly when the target has a `#` and is the
\* text after the first `#`, a `?` in it included; a target whose only `?`
\* come after the `#` has no query.
C16_FragmentFirst ==
    PathParsed =>
        /\ path.fragment.some <=> Contains(input, "#")
        /\ Contains(input, "#") => path.fragment.v = AfterFirst(input, "#")
        /\ ~Contains(BeforeFirst(input, "#"), "?") => path.query = None
        /\ (Contains(input, "?") /\ Contains(input, "#") /\ Contains(path.fragment.v, "?")
                /\ path.query.some)
               => FirstPos(input, "?") < FirstPos(input, "#")

\* the query before the fragment: both are found
C16_Witness ==
    /\ PathParsed
    /\ input = <<"/", "p", "?", "x", "=", "1", "#", "f", "r", "a", "g">>
    /\ path.query = Some(<<"x">> :> <<"1">>)
    /\ path.fragment = Some(<<"f", "r", "a", "g">>)
    /\ path.path = <<"/", "p">>

(***************************************************************************)
(* http.rs: write_http_response and the tables it prints from.             *)
(***************************************************************************)

\* HttpVersion::to_str
HttpVersion_to_str(v) ==
    CASE v = "HTTP10" -> <<"H", "T", "T", "P", "/", "1", ".", "0">>
      [] v = "HTTP11" -> <<"H", "T", "T", "P", "/", "1", ".", "1">>
      [] v = "HTTP20" -> <<"H", "T", "T", "P", "/", "2", ".", "0">>

\* enum HttpStatusCode, the variants
HttpStatusCodes ==
    { "OK", "Created", "Accepted", "NoContent", "MovedPermanently", "Found", "NotModified",
      "BadRequest", "Unauthorized", "Forbidden", "NotFound", "MethodNotAllowed",
      "InternalServerError", "NotImplemented", "BadGateway", "ServiceUnavailable" }

\* enum HttpStatusCode, the discriminant of a variant
HttpStatusCode_value(c) ==
    CASE c = "OK" -> 200
      [] c = "Created" -> 201
      [] c = "Accepted" -> 202
      [] c = "NoContent" -> 204
      [] c = "MovedPermanently" -> 301
      [] c = "Found" -> 302
      [] c = "NotModified" -> 304
      [] c = "BadRequest" -> 400
      [] c = "Unauthorized" -> 401
      [] c = "Forbidden" -> 403
      [] c = "NotFound" -> 404
      [] c = "MethodNotAllowed" -> 405
      [] c = "InternalServerError" -> 500
      [] c = "NotImplemented" -> 501
      [] c = "BadGateway" -> 502
      [] c = "ServiceUnavailable" -> 503

\* HttpStatusCode::to_str
HttpStatusCode_to_str(c) ==
    CASE c = "OK" -> <<"2", "0", "0">>
      [] c = "Created" -> <<"2", "0", "1">>
      [] c = "Accepted" -> <<"2", "0", "2">>
      [] c = "NoContent" -> <<"2", "0", "4">>
      [] c = "MovedPermanently" -> <<"3", "0", "1">>
      [] c = "Found" -> <<"3", "0", "2">>
      [] c = "NotModified" -> <<"3", "0", "4">>
      [] c = "BadRequest" -> <<"4", "0", "0">>
      [] c = "Unauthorized" -> <<"4", "0", "1">>
      [] c = "Forbidden" -> <<"4", "0", "3">>
      [] c = "NotFound" -> <<"4", "0", "4">>
      [] c = "MethodNotAllowed" -> <<"4", "0", "5">>
      [] c = "InternalServerError" -> <<"5", "0", "0">>
      [] c = "NotImplemented" -> <<"5", "0", "1">>
      [] c = "BadGateway" -> <<"5", "0", "2">>
      [] c = "ServiceUnavailable" -> <<"5", "0", "3">>

\* HttpStatusCode::status_text
HttpStatusCode_status_text(c) ==
    CASE c = "OK" -> <<"O", "K">>
      [] c = "Created" -> <<"C", "r", "e", "a", "t", "e", "d">>
      [] c = "Accepted" -> <<"A", "c", "c", "e", "p", "t", "e", "d">>
      [] c = "NoContent" -> <<"N", "o", " ", "C", "o", "n", "t", "e", "n", "t">>
      [] c = "MovedPermanently" -> <<"M", "o", "v", "e", "d", " ", "P", "e", "r", "m", "a", "n", "e", "n", "t", "l", "y">>
      [] c = "Found" -> <<"F", "o", "u", "n", "d">>
      [] c = "NotModified" -> <<"N", "o", "t", " ", "M", "o", "d", "i", "f", "i", "e", "d">>
      [] c = "BadRequest" -> <<"B", "a", "d", " ", "R", "e", "q", "u", "e", "s", "t">>
      [] c = "Unauthorized" -> <<"U", "n", "a", "u", "t", "h", "o", "r", "i", "z", "e", "d">>
      [] c = "Forbidden" -> <<"F", "o", "r", "b", "i", "d", "d", "e", "n">>
      [] c = "NotFound" -> <<"N", "o", "t", " ", "F", "o", "u", "n", "d">>
      [] c = "MethodNotAllowed" -> <<"M", "e", "t", "h", "o", "d", " ", "N", "o", "t", " ", "A", "l", "l", "o", "w", "e", "d">>
      [] c = "InternalServerError" -> <<"I", "n", "t", "e", "r", "n", "a", "l", " ", "S", "e", "r", "v", "e", "r", " ", "E", "r", "r", "o", "r">>
      [] c = "NotImplemented" -> <<"N", "o", "t", " ", "I", "m", "p", "l", "e", "m", "e", "n", "t", "e", "d">>
      [] c = "BadGateway" -> <<"B", "a", "d", " ", "G", "a", "t", "e", "w", "a", "y">>
      [] c = "ServiceUnavailable" -> <<"S", "e", "r", "v", "i", "c", "e", " ", "U", "n", "a", "v", "a", "i", "l", "a", "b", "l", "e">>

\* HttpMethod::to_str
HttpMethod_to_str(m) ==
    CASE m = "GET" -> <<"G", "E", "T">>
      [] m = "POST" -> <<"P", "O", "S", "T">>
      [] m = "PUT" -> <<"P", "U", "T">>
      [] m = "DELETE" -> <<"D", "E", "L", "E", "T", "E">>
      [] m = "HEAD" -> <<"H", "E", "A", "D">>
      [] m = "OPTIONS" -> <<"O", "P", "T", "I", "O", "N", "S">>
      [] m = "PATCH" -> <<"P", "A", "T", "C", "H">>
      [] m = "TRACE" -> <<"T", "R", "A", "C", "E">>
      [] m = "CONNECT" -> <<"C", "O", "N", "N", "E", "C", "T">>

\* HttpContentType::to_str
HttpContentType_to_str(c) ==
    CASE c.ct = "TextHtml" -> <<"t", "e", "x", "t", "/", "h", "t", "m", "l">>
      [] c.ct = "ApplicationJson" -> <<"a", "p", "p", "l", "i", "c", "a", "t", "i", "o", "n", "/", "j", "s", "o", "n">>
      [] c.ct = "ApplicationXml" -> <<"a", "p", "p", "l", "i", "c", "a", "t", "i", "o", "n", "/", "x", "m", "l">>
      [] c.ct = "TextPlain" -> <<"t", "e", "x", "t", "/", "p", "l", "a", "i", "n">>
      [] c.ct = "MultipartFormData" -> <<"m", "u", "l", "t", "i", "p", "a", "r", "t", "/", "f", "o", "r", "m", "-", "d", "a", "t", "a">>
      [] c.ct = "ApplicationXWwwFormUrlencoded" -> <<"a", "p", "p", "l", "i", "c", "a", "t", "i", "o", "n", "/", "x", "-", "w", "w", "w", "-", "f", "o", "r", "m", "-", "u", "r", "l", "e", "n", "c", "o", "d", "e", "d">>
      [] c.ct = "EventStream" -> <<"t", "e", "x", "t", "/", "e", "v", "e", "n", "t", "-", "s", "t", "r", "e", "a", "m">>
      [] c.ct = "Other" -> c.s

\* `{}` of a usize
format_usize(n) == NatText(n)

\* write_http_response, `let header_line = match header_value { .. }`
header_line(header_name, header_value) ==
    header_name \o <<":", " ">>
        \o (CASE header_value.h = "ContentType" -> HttpContentType_to_str(header_value.ct)
              [] header_value.h = "ContentLength" -> format_usize(header_value.len)
              [] OTHER -> header_value.s)
        \o CRLF

\* HashMap::iter: the entries once each, in an order the map does not fix
IterationOrders(m) ==
    {o \in [1..Cardinality(DOMAIN m) -> DOMAIN m] :
        \A i, j \in 1..Cardinality(DOMAIN m) : o[i] = o[j] => i = j}

\* Ok(String)
OkString(s) == [kind |-> "Ok", val |-> s]

\* write_http_response without the blank line between headers and body
write_http_response_no_blank(response, order) ==
    OkString(HttpVersion_to_str(response.version) \o <<" ">>
                 \o HttpStatusCode_to_str(response.status_code) \o <<" ">>
                 \o HttpStatusCode_status_text(response.status_code) \o CRLF
                 \o Concat([i \in 1..Len(order) |->
                                header_line(order[i], response.headers[order[i]])])
                 \o (IF response.body.some THEN response.body.v ELSE <<>>))

\* pub fn write_http_response, order being the order `response.headers.iter()` takes
write_http_response(response, order) ==
    OkString(HttpVersion_to_str(response.version) \o <<" ">>
                 \o HttpStatusCode_to_str(response.status_code) \o <<" ">>
                 \o HttpStatusCode_status_text(response.status_code) \o CRLF
                 \o Concat([i \in 1..Len(order) |->
                                header_line(order[i], response.headers[order[i]])])
                 \o CRLF
                 \o (IF response.body.some THEN response.body.v ELSE <<>>))

(***************************************************************************)
(* Specification of a write_http_response call.                            *)
(***************************************************************************)

MaxResponseHeaders == 2

ResponseHeaderNames == { <<"C", "o", "n", "t", "e", "n", "t", "-", "T", "y", "p", "e">>, <<"C", "o", "n", "t", "e", "n", "t", "-", "L", "e", "n", "g", "t", "h">>, <<"X", "-", "A">> }

ResponseHeaderValues ==
    { [h |-> "ContentType", ct |-> [ct |-> "TextHtml"]],
      [h |-> "ContentType", ct |-> [ct |-> "Other", s |-> <<"x", "/", "y">>]],
      [h |-> "ContentLength", len |-> 13],
      [h |-> "Other", s |-> <<"v">>] }

ResponseBodies == { None, Some(<<"<", "h", "1", ">", "H", "e", "l", "l", "o", "<", "/", "h", "1", ">">>) }

\* HttpResponse { .. }
HttpResponse(v, c, h, b) == [version |-> v, status_code |-> c, headers |-> h, body |-> b]

\* the responses handed to write_http_response
ResponseInput ==
    \E v \in {"HTTP10", "HTTP11", "HTTP20"} : \E c \in HttpStatusCodes :
    \E names \in SUBSET ResponseHeaderNames : \E h \in [names -> ResponseHeaderValues] :
    \E b \in ResponseBodies :
        /\ Cardinality(names) <= MaxResponseHeaders
        /\ input = HttpResponse(v, c, h, b)
        /\ src = [kind |-> "response"]

InitWrite ==
    /\ ResponseInput
    /\ pc = "start"
    /\ result = NoResult
    /\ HttpIdle

\* a call of write_http_response(input)
WriteResponse ==
    /\ pc = "start"
    /\ \E order \in IterationOrders(input.headers) :
           result' = write_http_response(input, order)
    /\ pc' = "done"
    /\ UNCHANGED <<input, src, httpVars>>

NextWrite == WriteResponse

SpecWrite == InitWrite /\ [][NextWrite]_vars

(***************************************************************************)
(* Claims about write_http_response.                                       *)
(***************************************************************************)

Written == pc = "done" /\ src.kind = "response"

\* the MIME string of a content type
MimeOf(c) ==
    IF c.ct = "Other" THEN c.s ELSE (CHOOSE e \in MimeTypes : e[2] = c.ct)[1]

\* the text a header value is rendered as
Rendered(hv) ==
    CASE hv.h = "ContentType" -> MimeOf(hv.ct)
      [] hv.h = "ContentLength" -> NatText(hv.len)
      [] OTHER -> hv.s

\* the header line of an entry, without its line end
LineOf(h, n) == n \o <<":", " ">> \o Rendered(h[n])

\* the status line of a response, with its line end
StatusLineOf(r) ==
    HttpVersion_to_str(r.version) \o <<" ">> \o NatText(HttpStatusCode_value(r.status_code))
        \o <<" ">> \o HttpStatusCode_status_text(r.status_code) \o CRLF

\* the text of an optional body
BodyText(b) == IF b.some THEN b.v ELSE <<>>

\* C17: write_http_response returns Ok, and the output is the status line,
\* then exactly one line `name: rendered value` per entry of the header
\* mapping, then an empty line, then the body verbatim (nothing when absent),
\* whatever a Content-Length entry says.
C17_ResponseFormat ==
    Written =>
        /\ result.kind = "Ok"
        /\ LET out == result.val
               head == StatusLineOf(input)
               tail == CRLF \o BodyText(input.body)
               mid == SubSeq(out, Len(head) + 1, Len(out) - Len(tail))
               segs == SplitCRLF(mid)
               n == Cardinality(DOMAIN input.headers)
           IN  /\ Len(out) >= Len(head) + Len(tail)
               /\ SubSeq(out, 1, Len(head)) = head
               /\ SubSeq(out, Len(out) - Len(tail) + 1, Len(out)) = tail
               /\ Len(segs) = n + 1
               /\ segs[n + 1] = <<>>
               /\ {segs[i] : i \in 1..n} = {LineOf(input.headers, k) : k \in DOMAIN input.headers}

\* a body of 14 characters is written whole behind Content-Length: 13
C17_Witness ==
    /\ Written
    /\ input = HttpResponse("HTTP11", "NotFound",
                            (<<"C", "o", "n", "t", "e", "n", "t", "-", "L", "e", "n", "g", "t", "h">> :> [h |-> "ContentLength", len |-> 13]),
                            Some(<<"<", "h", "1", ">", "H", "e", "l", "l", "o", "<", "/", "h", "1", ">">>))
    /\ result = OkString(<<"H", "T", "T", "P", "/", "1", ".", "1", " ", "4", "0", "4", " ", "N", "o", "t", " ", "F", "o", "u", "n", "d", "\r", "\n", "C", "o", "n", "t", "e", "n", "t", "-", "L", "e", "n", "g", "t", "h", ":", " ", "1", "3", "\r", "\n", "\r", "\n", "<", "h", "1", ">", "H", "e", "l", "l", "o", "<", "/", "h", "1", ">">>)

\* C18: for the headers Content-Type and Content-Length the response always
\* serializes to the one string with the Content-Length line first.
C18_FixedHeaderOrder ==
    (Written /\ DOMAIN input.headers = { <<"C", "o", "n", "t", "e", "n", "t", "-", "T", "y", "p", "e">>, <<"C", "o", "n", "t", "e", "n", "t", "-", "L", "e", "n", "g", "t", "h">> }) =>
        result.val = StatusLineOf(input)
                         \o LineOf(input.headers, <<"C", "o", "n", "t", "e", "n", "t", "-", "L", "e", "n", "g", "t", "h">>) \o CRLF
                         \o LineOf(input.headers, <<"C", "o", "n", "t", "e", "n", "t", "-", "T", "y", "p", "e">>) \o CRLF
                         \o CRLF \o BodyText(input.body)

(***************************************************************************)
(* Specification of the calls of the string tables: from_str on a text,    *)
(* and to_str then from_str on a value.                                     *)
(***************************************************************************)

\* enum HttpMethod, the variants
HttpMethods == {"GET", "POST", "PUT", "DELETE", "HEAD", "OPTIONS", "PATCH", "TRACE", "CONNECT"}

\* enum HttpContentType, the variants without a payload
HttpContentTypes ==
    { [ct |-> "TextHtml"], [ct |-> "ApplicationJson"], [ct |-> "ApplicationXml"],
      [ct |-> "TextPlain"], [ct |-> "MultipartFormData"],
      [ct |-> "ApplicationXWwwFormUrlencoded"], [ct |-> "EventStream"] }

\* a text in upper case
ToUppercase(s) ==
    [i \in 1..Len(s) |->
        IF \E k \in 1..Len(LowerLetters) : LowerLetters[k] = s[i]
        THEN UpperLetters[CHOOSE k \in 1..Len(LowerLetters) : LowerLetters[k] = s[i]]
        ELSE s[i]]

\* the names of the tables
TableNames == MethodNames \cup {e[1] : e \in MimeTypes}

\* a name as it may arrive: exact, in another letter case, padded, cut, extended
Variants(t) ==
    { t, ToLowercase(t), ToUppercase(t), t \o <<" ">>, <<" ">> \o t,
      SubSeq(t, 1, Len(t) - 1), t \o <<"x">>, t \o <<";", " ", "c", "h", "a", "r", "s", "e", "t", "=", "u", "t", "f", "-", "8">> }

TableInput ==
    \/ \E m \in HttpMethods :
           /\ input = m
           /\ src = [kind |-> "method"]
    \/ \E c \in HttpContentTypes :
           /\ input = c
           /\ src = [kind |-> "content_type"]
    \/ \E t \in TableNames : \E v \in Variants(t) :
           /\ input = v
           /\ src = [kind |-> "text"]

InitTables ==
    /\ TableInput
    /\ pc = "start"
    /\ result = NoResult
    /\ HttpIdle

\* HttpMethod::from_str(m.to_str())
MethodToStrFromStr ==
    /\ pc = "start"
    /\ src.kind = "method"
    /\ result' = HttpMethod_from_str(HttpMethod_to_str(input))
    /\ pc' = "done"
    /\ UNCHANGED <<input, src, httpVars>>

\* HttpContentType::from_str(c.to_str())
ContentTypeToStrFromStr ==
    /\ pc = "start"
    /\ src.kind = "content_type"
    /\ result' = HttpContentType_from_str(HttpContentType_to_str(input))
    /\ pc' = "done"
    /\ UNCHANGED <<input, src, httpVars>>

\* HttpMethod::from_str(input)
MethodFromStr ==
    /\ pc = "start"
    /\ src.kind = "text"
    /\ result' = HttpMethod_from_str(input)
    /\ pc' = "method"
    /\ UNCHANGED <<input, src, httpVars>>

\* HttpContentType::from_str(input)
ContentTypeFromStr ==
    /\ pc = "start"
    /\ src.kind = "text"
    /\ result' = HttpContentType_from_str(input)
    /\ pc' = "content_type"
    /\ UNCHANGED <<input, src, httpVars>>

NextTables == MethodToStrFromStr \/ ContentTypeToStrFromStr \/ MethodFromStr \/ ContentTypeFromStr

SpecTables == InitTables /\ [][NextTables]_vars

(***************************************************************************)
(* Claims about the string tables.                                         *)
(***************************************************************************)

\* C19: from_str(to_str(m)) = Ok(m) for every method m, and from_str(s) is
\* Ok(m) only for s = to_str(m), any other text being rejected;
\* from_str(to_str(c)) = c for every recognized content type c, and a text
\* that is no recognized content type gives Other(s), whose to_str is s.
C19_TablesInverse ==
    /\ (pc = "done" /\ src.kind = "method") => result = [ok |-> TRUE, m |-> input]
    /\ (pc = "done" /\ src.kind = "content_type") => result = input
    /\ pc = "method" =>
           IF input \in MethodNames
           THEN result.ok /\ HttpMethod_to_str(result.m) = input
           ELSE result = [ok |-> FALSE]
    /\ pc = "content_type" =>
           IF \E e \in MimeTypes : e[1] = input
           THEN result \in HttpContentTypes /\ HttpContentType_to_str(result) = input
           ELSE result = [ct |-> "Other", s |-> input]
                    /\ HttpContentType_to_str(result) = input

\* a recognized content type in upper case is carried as Other
C19_Witness ==
    /\ pc = "content_type"
    /\ input = <<"T", "E", "X", "T", "/", "H", "T", "M", "L">>
    /\ result = [ct |-> "Other", s |-> <<"T", "E", "X", "T", "/", "H", "T", "M", "L">>]

(***************************************************************************)
(* Specification of the calls made by the connection threads of main.rs:   *)
(* each thread runs one call on its own argument; the threads' steps        *)
(* interleave.  Every variable holds one value per thread: the argument,    *)
(* the locals of the call and its result live on the thread's own stack.    *)
(***************************************************************************)

MaxThreads == 2

Threads == 1..MaxThreads

\* the calls a thread makes, each with the results the call has when it runs alone
ThreadCalls ==
    { [call |-> "read_http_request",
       arg |-> <<"G", "E", "T", " ", "/", " ", "H", "T", "T", "P", "/", "1", ".", "1", "\r", "\n", "H", "o", "s", "t", ":", " ", "a", "\r", "\n", "\r", "\n", "x">>,
       alone |-> { HttpOk("GET",
                          [full_path |-> <<"/">>, path |-> <<"/">>, query |-> None, fragment |-> None],
                          "HTTP11", (<<"H", "o", "s", "t">> :> [h |-> "Host", s |-> <<"a">>]), Some(<<"x">>)) }],
      [call |-> "read_http_request",
       arg |-> <<"P", "O", "S", "T", " ", "/", "s", "?", "q", "=", "a", " ", "H", "T", "T", "P", "/", "1", ".", "0", "\r", "\n", "H", "o", "s", "t", ":", " ", "b", "\r", "\n", "C", "o", "n", "t", "e", "n", "t", "-", "L", "e", "n", "g", "t", "h", ":", " ", "1", "\r", "\n", "\r", "\n", " ", "y", "\r", "\n", "z">>,
       alone |-> { HttpOk("POST",
                          [full_path |-> <<"/", "s", "?", "q", "=", "a">>, path |-> <<"/", "s">>,
                           query |-> Some(<<"q">> :> <<"a">>), fragment |-> None],
                          "HTTP10",
                          (<<"H", "o", "s", "t">> :> [h |-> "Host", s |-> <<"b">>]
                             @@ <<"C", "o", "n", "t", "e", "n", "t", "-", "L", "e", "n", "g", "t", "h">> :> [h |-> "ContentLength", len |-> 1]),
                          Some(<<"y", "\r", "\n", "z">>)) }],
      [call |-> "read_http_request",
       arg |-> <<"G", "E", "T", " ", "/", " ", "H", "T", "T", "P", "/", "1", ".", "1", "\r", "\n", "H", "o", "s", "t", ":", " ", "a", "\r", "\n", "a", "b", "\r", "\n", "\r", "\n">>,
       alone |-> { HttpErr("InvalidHeader") }],
      [call |-> "parse_json",
       arg |-> <<"{", "\"", "a", "\"", ":", "1", "}">>,
       alone |-> { Value(JObject(<<"a">> :> JNumber(1))) }],
      [call |-> "parse_json",
       arg |-> <<"[", "t", "r", "u", "e">>,
       alone |-> { Panic }],
      [call |-> "write_http_response",
       arg |-> HttpResponse("HTTP11", "OK",
                            (<<"C", "o", "n", "t", "e", "n", "t", "-", "T", "y", "p", "e">> :> [h |-> "ContentType", ct |-> [ct |-> "TextHtml"]]
                               @@ <<"C", "o", "n", "t", "e", "n", "t", "-", "L", "e", "n", "g", "t", "h">> :> [h |-> "ContentLength", len |-> 13]),
                            Some(<<"<", "h", "1", ">", "H", "e", "l", "l", "o", "<", "/", "h", "1", ">">>)),
       alone |-> { OkString(<<"H", "T", "T", "P", "/", "1", ".", "1", " ", "2", "0", "0", " ", "O", "K", "\r", "\n", "C", "o", "n", "t", "e", "n", "t", "-", "L", "e", "n", "g", "t", "h", ":", " ", "1", "3", "\r", "\n", "C", "o", "n", "t", "e", "n", "t", "-", "T", "y", "p", "e", ":", " ", "t", "e", "x", "t", "/", "h", "t", "m", "l", "\r", "\n", "\r", "\n", "<", "h", "1", ">", "H", "e", "l", "l", "o", "<", "/", "h", "1", ">">>),
                   OkString(<<"H", "T", "T", "P", "/", "1", ".", "1", " ", "2", "0", "0", " ", "O", "K", "\r", "\n", "C", "o", "n", "t", "e", "n", "t", "-", "T", "y", "p", "e", ":", " ", "t", "e", "x", "t", "/", "h", "t", "m", "l", "\r", "\n", "C", "o", "n", "t", "e", "n", "t", "-", "L", "e", "n", "g", "t", "h", ":", " ", "1", "3", "\r", "\n", "\r", "\n", "<", "h", "1", ">", "H", "e", "l", "l", "o", "<", "/", "h", "1", ">">>) }] }

\* std::thread::spawn per accepted connection: every thread at the entry of its call
InitThreads ==
    /\ src \in [Threads -> ThreadCalls]
    /\ input = [t \in Threads |-> src[t].arg]
    /\ pc = [t \in Threads |-> IF src[t].call = "read_http_request" THEN "lines" ELSE "start"]
    /\ result = [t \in Threads |-> NoResult]
    /\ lines = [t \in Threads |->
                   IF src[t].call = "read_http_request" THEN Lines(TrimStart(src[t].arg)) ELSE <<>>]
    /\ state = [t \in Threads |-> "RequestLine"]
    /\ method = [t \in Threads |-> "GET"]
    /\ path = [t \in Threads |-> HttpPath_from_str(<<"/">>)]
    /\ version = [t \in Threads |-> "HTTP11"]
    /\ headers = [t \in Threads |-> EmptyMap]
    /\ body = [t \in Threads |-> None]
    /\ seen = <<>>

\* the locals of thread 1's call used by every thread, as a static would be
Frame_shared(t) ==
    [kind |-> "Frame", state |-> state[t], method |-> method[t], path |-> path[t],
     version |-> version[t], headers |-> headers[1], body |-> body[t]]

\* read_http_request, the locals of the call of thread t
Frame(t) ==
    [kind |-> "Frame", state |-> state[t], method |-> method[t], path |-> path[t],
     version |-> version[t], headers |-> headers[t], body |-> body[t]]

\* read_http_request, the body of the `for line in input.lines()` loop:
\* the locals after the line, or the error returned
read_line(f, line) ==
    CASE f.state = "RequestLine" ->
             LET parts == SplitWhitespace(line)
             IN  IF Len(parts) # 3 THEN HttpErr("InvalidRequest")
                 ELSE IF ~HttpMethod_from_str(parts[1]).ok THEN HttpErr("InvalidMethod")
                 ELSE IF ~HttpVersion_from_str(parts[3]).ok THEN HttpErr("InvalidVersion")
                 ELSE [f EXCEPT !.method = HttpMethod_from_str(parts[1]).m,
                                !.path = HttpPath_from_str(parts[2]),
                                !.version = HttpVersion_from_str(parts[3]).v,
                                !.state = "Headers"]
      [] f.state = "Headers" ->
             IF line = <<>> THEN [f EXCEPT !.state = "Body"]
             ELSE LET parts == SplitN2(line, ":")
                  IN  IF Len(parts) # 2 THEN HttpErr("InvalidHeader")
                      ELSE [f EXCEPT !.headers =
                                MapInsert(f.headers, Trim(parts[1]),
                                          KnownHeader_from_str(Trim(parts[1]), Trim(parts[2])))]
      [] f.state = "Body" -> [f EXCEPT !.body = body_push(f.body, line)]

\* thread t runs one iteration of the loop of its read_http_request call
ThreadReadLine(t) ==
    /\ pc[t] = "lines"
    /\ lines[t] # <<>>
    /\ LET f == read_line(Frame(t), Head(lines[t]))
       IN  IF f.kind = "Err"
           THEN /\ result' = [result EXCEPT ![t] = f]
                /\ pc' = [pc EXCEPT ![t] = "done"]
                /\ UNCHANGED <<lines, state, method, path, version, headers, body>>
           ELSE /\ lines' = [lines EXCEPT ![t] = Tail(lines[t])]
                /\ state' = [state EXCEPT ![t] = f.state]
                /\ method' = [method EXCEPT ![t] = f.method]
                /\ path' = [path EXCEPT ![t] = f.path]
                /\ version' = [version EXCEPT ![t] = f.version]
                /\ headers' = [headers EXCEPT ![t] = f.headers]
                /\ body' = [body EXCEPT ![t] = f.body]
                /\ UNCHANGED <<pc, result>>
    /\ UNCHANGED <<input, src, seen>>

\* thread t returns Ok(HttpRequest { .. }) from its read_http_request call
ThreadReturn(t) ==
    /\ pc[t] = "lines"
    /\ lines[t] = <<>>
    /\ result' = [result EXCEPT ![t] =
                     HttpOk(method[t], path[t], version[t], headers[t], body[t])]
    /\ pc' = [pc EXCEPT ![t] = "done"]
    /\ UNCHANGED <<input, src, httpVars>>

\* thread t runs its parse_json call
ThreadParseJson(t) ==
    /\ pc[t] = "start"
    /\ src[t].call = "parse_json"
    /\ result' = [result EXCEPT ![t] = parse_json(input[t])]
    /\ pc' = [pc EXCEPT ![t] = "done"]
    /\ UNCHANGED <<input, src, httpVars>>

\* thread t runs its write_http_response call
ThreadWriteResponse(t) ==
    /\ pc[t] = "start"
    /\ src[t].call = "write_http_response"
    /\ \E order \in IterationOrders(input[t].headers) :
           result' = [result EXCEPT ![t] = write_http_response(input[t], order)]
    /\ pc' = [pc EXCEPT ![t] = "done"]
    /\ UNCHANGED <<input, src, httpVars>>

NextThreads ==
    \E t \in Threads :
        \/ ThreadReadLine(t)
        \/ ThreadReturn(t)
        \/ ThreadParseJson(t)
        \/ ThreadWriteResponse(t)

SpecThreads == InitThreads /\ [][NextThreads]_vars

(***************************************************************************)
(* Claims about concurrent calls.                                          *)
(***************************************************************************)

\* C20: with several threads each running read_http_request,
\* write_http_response or parse_json on its own argument, in any
\* interleaving of their steps, every call returns a result it has when it
\* runs alone.
C20_CallsIsolated ==
    \A t \in Threads : pc[t] = "done" => result[t] \in src[t].alone

\* two read_http_request calls ran line by line side by side and returned
\* requests with different headers
C20_Witness ==
    /\ \A t \in Threads : pc[t] = "done"
    /\ src[1].call = "read_http_request" /\ result[1].kind = "Ok"
    /\ src[2].call = "read_http_request" /\ result[2].kind = "Ok"
    /\ result[1].val.headers # result[2].val.headers

(***************************************************************************)
(* Claims about written values: empty arrays, arrays below objects, text   *)
(* behind the value, whitespace before the `:`.                            *)
(***************************************************************************)

\* a written top-level value was parsed
WrittenParsed == pc = "done" /\ src.kind = "written"

RECURSIVE EmptyArrayProperty(_)
\* the tree has, at some depth, a property whose value is the empty array
EmptyArrayProperty(v) ==
    CASE v.t = "Object" ->
             \E i \in 1..Len(v.pairs) :
                 \/ v.pairs[i].v = SArray(<<>>)
                 \/ EmptyArrayProperty(v.pairs[i].v)
      [] v.t = "Array" -> \E i \in 1..Len(v.elems) : EmptyArrayProperty(v.elems[i])
      [] OTHER -> FALSE

\* C21: an empty array literal is accepted wherever a value is allowed and
\* the cursor continues after its `]`: a written value with an empty array,
\* at the top level or as a property value, parses to the value it stands for.
C21_EmptyArrayAccepted ==
    (WrittenParsed /\ src.sfx = <<>>
         /\ (src.tree = SArray(<<>>) \/ EmptyArrayProperty(src.tree)))
        => result = Value(Denote(src.tree))

\* an element of the array is an object with a property whose value is an array
ArrayBelowObject(v) ==
    /\ v.t = "Array"
    /\ \E i \in 1..Len(v.elems) :
           /\ v.elems[i].t = "Object"
           /\ \E j \in 1..Len(v.elems[i].pairs) : v.elems[i].pairs[j].v.t = "Array"

\* C26: an array that is the value of a property of an object which is itself
\* an array element is accepted: such a written value parses to the value it
\* stands for.
C26_ArrayBelowObjectAccepted ==
    (WrittenParsed /\ ArrayBelowObject(src.tree)) => result = Value(Denote(src.tree))

\* the written text without what follows the top-level value
WrittenValueText == SubSeq(input, 1, Len(input) - Len(src.sfx))

\* C27: the text that follows the closing bracket of the top-level value is
\* not examined: the result is the result for the value's text alone, and
\* it is the value when the value's text parses.
C27_TrailingTextIgnored ==
    WrittenParsed =>
        /\ result = parse_json(WrittenValueText)
        /\ ~EmptyArrayProperty(src.tree) => result = Value(Denote(src.tree))

\* an array followed by a second array
C27_Witness ==
    /\ WrittenParsed
    /\ input = <<"[", "1", "]", " ", "[", "2", "]">>
    /\ result = Value(JArray(<<JNumber(1)>>))

\* C28: whitespace between a key's closing quote and the `:` is not skipped
\* and gives MissingToken; whitespace after `{`, after `:`, after a value
\* and after `,` is skipped.
C28_NoSpaceBeforeColon ==
    (pc = "done" /\ src.kind = "keyspace") =>
        IF src.ws # <<>> THEN result = Err("MissingToken")
        ELSE result = Value(JObject(<<"a">> :> src.v @@ <<"b">> :> JBoolean(TRUE)))

\* a space before the `:`, in a text with spaces at the other join points
C28_Witness ==
    /\ pc = "done"
    /\ src.kind = "keyspace"
    /\ input = <<"{", " ", "\"", "a", "\"", " ", ":", " ", "1", " ", ",", " ", "\"", "b", "\"", ":", " ", "t", "r", "u", "e", " ", "}">>
    /\ result = Err("MissingToken")

(***************************************************************************)
(* Specification of read_http_request calls on texts that may have no      *)
(* request line: a text is up to MaxPieces pieces written one after the    *)
(* other, blank pieces and line ends among them.                           *)
(***************************************************************************)

MaxPieces == 4

TextPieces == { <<" ">>, <<"\r", "\n">>, <<"G", "E", "T", " ", "/", " ", "H", "T", "T", "P", "/", "1", ".", "1">>, <<"G", "E", "T">>, <<"H", "o", "s", "t", ":", "a">>, <<"x">> }

\* text is a text passed to read_http_request, written as how says
TextCall(text, how) ==
    \E n \in 0..MaxPieces : \E ps \in [1..n -> TextPieces] :
        /\ text = Concat(ps)
        /\ how = [kind |-> "text", pieces |-> ps]

TextInput == TextCall(input, src)

InitHttpText ==
    /\ TextInput
    /\ pc = "lines"
    /\ result = NoResult
    /\ lines = Lines(TrimStart(input))
    /\ state = "RequestLine"
    /\ method = "GET"
    /\ path = HttpPath_from_str(<<"/">>)
    /\ version = "HTTP11"
    /\ headers = EmptyMap
    /\ body = None
    /\ seen = <<>>

NextHttpText == ReadRequestLine \/ ReadHeaderLine \/ ReadBodyLine \/ Return

SpecHttpText == InitHttpText /\ [][NextHttpText]_vars

\* the text after its leading whitespace, up to its first line feed
FirstLineOf(s) ==
    LET first == CHOOSE i \in 1..(Len(s) + 1) :
                     /\ i = Len(s) + 1 \/ ~IsWhitespace(s[i])
                     /\ \A j \in 1..(i - 1) : IsWhitespace(s[j])
        end == CHOOSE i \in first..(Len(s) + 1) :
                     /\ i = Len(s) + 1 \/ s[i] = "\n"
                     /\ \A j \in first..(i - 1) : s[j] # "\n"
    IN  SubSeq(s, first, end - 1)

\* the number of tokens of a line: the places where a run of characters
\* that are not whitespace begins
TokenCount(l) ==
    Cardinality({ i \in 1..Len(l) : ~IsWhitespace(l[i]) /\ (i = 1 \/ IsWhitespace(l[i - 1])) })

\* C22: read_http_request returns a request only when the left-trimmed input
\* has a first line with exactly three tokens; for an empty or
\* whitespace-only input it does not return a request.
C22_RequestLineRequired ==
    Returned => ~Blank(input) /\ TokenCount(FirstLineOf(input)) = 3

(***************************************************************************)
(* Specification of the calls of the helper parsers of json.rs, each on    *)
(* the texts it is called with: parse_string (called at a quote, and at    *)
(* any character but `}` where a key is due), parse_boolean (at `t` or     *)
(* `f`), parse_number (at a digit or `-`), parse_array (at `[`) and        *)
(* parse_object (at `{`).  The two scalar parsers without a loop are one   *)
(* step; parse_number, parse_array and parse_object are one step up to     *)
(* their loop and one step per iteration of it, `result` holding the       *)
(* cursor and what was collected while the loop goes on.                   *)
(***************************************************************************)

MaxStringLen == 5
MaxNumberLen == 4
MaxLoopPieces == 3

StringChars == { "\"", "\\", "a", " " }

NumberStarts == { "1", "0", "-" }

NumberTextChars == { "1", "0", "-", ".", "," }

\* integer literals outside the range of i64, each with a terminating character
BigNumberTexts == { <<"9", "2", "2", "3", "3", "7", "2", "0", "3", "6", "8", "5", "4", "7", "7", "5", "8", "0", "8", ",">>, <<"-", "9", "2", "2", "3", "3", "7", "2", "0", "3", "6", "8", "5", "4", "7", "7", "5", "8", "0", "9", ",">>, <<"1", "0", "0", "0", "0", "0", "0", "0", "0", "0", "0", "0", "0", "0", "0", "0", "0", "0", "0", "0", " ">> }

BooleanStarts == { <<"t", "r", "u", "e">>, <<"f", "a", "l", "s", "e">>, <<"t", "r", "u">>, <<"f", "a", "l", "s">>, <<"t", "a", "l", "s", "e">>, <<"t">>, <<"f">> }

BooleanFollows == { <<>>, <<",">>, <<"e">>, <<" ", "}">> }

\* what follows the `[` of an array text, piece by piece
ArrayPieces ==
    { <<"]">>, <<",">>, <<" ">>, <<"1">>, <<"1", ",">>, <<"t", "r", "u", "e">>, <<"{", "\"", "a", "\"", ":", "1", "}">>, <<"}">> }

\* what follows the `{` of an object text, piece by piece
ObjectPieces ==
    { <<"}">>, <<",">>, <<" ">>, <<"\"", "a", "\"", ":", "1">>, <<"\"", "a", "\"", ":", "1", ",">>, <<"\"", "b", "\"", ":", "[", "1", "]">>, <<"\"", "a", "\"">>, <<"1">> }

\* text is a text passed to a helper parser, how says to which
HelperCall(text, how) ==
    \/ \E n \in 1..MaxStringLen : \E cs \in [1..n -> StringChars] :
           /\ text = cs
           /\ how = [kind |-> "string"]
    \/ \E c \in NumberStarts : \E n \in 0..MaxNumberLen : \E cs \in [1..n -> NumberTextChars] :
           /\ text = <<c>> \o cs
           /\ how = [kind |-> "number", big |-> FALSE]
    \/ \E t \in BigNumberTexts :
           /\ text = t
           /\ how = [kind |-> "number", big |-> TRUE]
    \/ \E t \in BooleanStarts : \E f \in BooleanFollows :
           /\ text = t \o f
           /\ how = [kind |-> "boolean"]
    \/ \E n \in 0..MaxLoopPieces : \E ps \in [1..n -> ArrayPieces] :
           /\ text = <<"[">> \o Concat(ps)
           /\ how = [kind |-> "array"]
    \/ \E n \in 0..MaxLoopPieces : \E ps \in [1..n -> ObjectPieces] :
           /\ text = <<"{">> \o Concat(ps)
           /\ how = [kind |-> "object"]

HelperInput == HelperCall(input, src)

InitHelpers ==
    /\ HelperInput
    /\ pc = "call"
    /\ result = NoResult
    /\ HttpIdle

\* where a call stands after a step that left `r`
After(r) == IF r.kind = "Continue" THEN "loop" ELSE "done"

\* a call of parse_string(input)
CallParseString ==
    /\ pc = "call" /\ src.kind = "string"
    /\ result' = parse_string(input)
    /\ pc' = "done"
    /\ UNCHANGED <<input, src, httpVars>>

\* a call of parse_boolean(input)
CallParseBoolean ==
    /\ pc = "call" /\ src.kind = "boolean"
    /\ result' = parse_boolean(input)
    /\ pc' = "done"
    /\ UNCHANGED <<input, src, httpVars>>

\* a call of parse_number(input), up to its loop
CallParseNumber ==
    /\ pc = "call" /\ src.kind = "number"
    /\ result' = number_entry(input)
    /\ pc' = After(result')
    /\ UNCHANGED <<input, src, httpVars>>

\* one iteration of the loop of parse_number
NumberIteration ==
    /\ pc = "loop" /\ src.kind = "number"
    /\ result' = number_iteration(result.res, result.rest)
    /\ pc' = After(result')
    /\ UNCHANGED <<input, src, httpVars>>

\* a call of parse_array(input), up to its loop
CallParseArray ==
    /\ pc = "call" /\ src.kind = "array"
    /\ result' = array_entry(input)
    /\ pc' = After(result')
    /\ UNCHANGED <<input, src, httpVars>>

\* one iteration of the loop of parse_array
ArrayIteration ==
    /\ pc = "loop" /\ src.kind = "array"
    /\ result' = array_iteration(result.rest, result.res)
    /\ pc' = After(result')
    /\ UNCHANGED <<input, src, httpVars>>

\* a call of parse_object(input), up to its loop
CallParseObject ==
    /\ pc = "call" /\ src.kind = "object"
    /\ result' = object_entry(input)
    /\ pc' = After(result')
    /\ UNCHANGED <<input, src, httpVars>>

\* one iteration of the loop of parse_object
ObjectIteration ==
    /\ pc = "loop" /\ src.kind = "object"
    /\ result' = object_iteration(result.rest, result.res)
    /\ pc' = After(result')
    /\ UNCHANGED <<input, src, httpVars>>

NextHelpers ==
    \/ CallParseString
    \/ CallParseBoolean
    \/ CallParseNumber
    \/ NumberIteration
    \/ CallParseArray
    \/ ArrayIteration
    \/ CallParseObject
    \/ ObjectIteration

SpecHelpers == InitHelpers /\ [][NextHelpers]_vars

(***************************************************************************)
(* Claims about the helper parsers.                                        *)
(***************************************************************************)

\* the text has no quote
NoQuote(s) == \A i \in 1..Len(s) : s[i] # "\""

\* C23: a string token ends at the first quote after its opening quote: the
\* text read is the opening quote, the value, a quote and the remainder, the
\* value holding no quote (a backslash before the closing quote is the last
\* character of the value); with no quote after the opening one the call
\* fails with MissingToken.
C23_StringEndsAtFirstQuote ==
    (pc = "done" /\ src.kind = "string" /\ input[1] = "\"") =>
        IF NoQuote(Tail(input))
        THEN result = Err("MissingToken")
        ELSE /\ result.kind = "Ok"
             /\ NoQuote(result.val)
             /\ input = <<"\"">> \o result.val \o <<"\"">> \o result.rest

\* the string `"a\"a`: the value read is `a\`, the cursor is at the second `a`
C23_Witness ==
    /\ pc = "done" /\ src.kind = "string"
    /\ input = <<"\"", "a", "\\", "\"", "a">>
    /\ result = Ok(<<"a", "\\">>, <<"a">>)

\* the longest run of digits, `-` and `.` a text begins with
NumberRun(t) ==
    Take(t, CHOOSE k \in 0..Len(t) :
                /\ \A i \in 1..k : t[i] \in Digits \cup {"-", "."}
                /\ k = Len(t) \/ t[k + 1] \notin Digits \cup {"-", "."})

\* the run without a leading `-`
Unsigned(r) == IF r # <<>> /\ r[1] = "-" THEN Tail(r) ELSE r

\* the sign a leading `-` gives
SignOf(r) == IF r # <<>> /\ r[1] = "-" THEN 0 - 1 ELSE 1

\* an integer literal: an optional `-`, then one or more digits
IsIntegerText(r) ==
    /\ Unsigned(r) # <<>>
    /\ \A i \in 1..Len(Unsigned(r)) : Unsigned(r)[i] \in Digits

\* a decimal literal: an optional `-`, then digits around one `.`, one digit at least
IsDecimalText(r) ==
    /\ Cardinality({ i \in 1..Len(Unsigned(r)) : Unsigned(r)[i] = "." }) = 1
    /\ \A i \in 1..Len(Unsigned(r)) : Unsigned(r)[i] \in Digits \cup {"."}
    /\ Len(Unsigned(r)) >= 2

RECURSIVE PlaceValue(_)
\* the number a run of digits writes, each digit at its power of ten
PlaceValue(ds) ==
    IF ds = <<>> THEN 0
    ELSE (CHOOSE d \in 0..9 : DigitChar(d) = ds[1]) * Pow10(Len(ds) - 1) + PlaceValue(Tail(ds))

\* the digits of a decimal literal, and how many of them stand behind the `.`
DecimalDigits(r) == SelectSeq(Unsigned(r), LAMBDA c : c # ".")
DecimalPlaces(r) == Len(Unsigned(r)) - (CHOOSE i \in 1..Len(Unsigned(r)) : Unsigned(r)[i] = ".")

\* C24: parse_number reads the longest run of digits, `-` and `.` at the
\* cursor.  A run that reaches the end of the input gives EmptyInput.  A run
\* with a `.` gives the Decimal it writes when it is a decimal literal, a run
\* without one the Number it writes when it is an integer literal in the
\* range of i64, the cursor then being right behind the run; every other run
\* gives InvalidSyntax.
C24_NumberToken ==
    (pc = "done" /\ src.kind = "number") =>
        LET run == NumberRun(input)
            rest == Drop(input, Len(run))
        IN  IF rest = <<>> THEN result = Err("EmptyInput")
            ELSE IF \E i \in 1..Len(run) : run[i] = "."
            THEN IF IsDecimalText(run)
                 THEN /\ result.kind = "Ok" /\ result.rest = rest
                      /\ result.val.t = "Decimal"
                      /\ result.val.e <= DecimalPlaces(run)
                      /\ result.val.e = 0 \/ result.val.m % 10 # 0
                      /\ result.val.m * Pow10(DecimalPlaces(run) - result.val.e)
                             = SignOf(run) * PlaceValue(DecimalDigits(run))
                 ELSE result = Err("InvalidSyntax")
            ELSE IF IsIntegerText(run) /\ ~src.big
                 THEN result = Ok(JNumber(SignOf(run) * PlaceValue(Unsigned(run))), rest)
                 ELSE result = Err("InvalidSyntax")

\* the token `-1.1` before a `,`: the Decimal -11 / 10, the cursor at the `,`
C24_Witness ==
    /\ pc = "done" /\ src.kind = "number"
    /\ input = <<"-", "1", ".", "1", ",">>
    /\ result = Ok(JDecimal(0 - 11, 1), <<",">>)

(***************************************************************************)
(* Specification of the calls that loop over their input: the helper       *)
(* parsers above and read_http_request, each call taking its steps until   *)
(* it has returned.                                                        *)
(***************************************************************************)

\* no call made yet
InitTerminates ==
    /\ input = <<>>
    /\ src = [kind |-> "none"]
    /\ pc = "idle"
    /\ result = NoResult
    /\ HttpIdle

\* a helper parser is called
EnterHelper ==
    /\ pc = "idle"
    /\ HelperCall(input', src')
    /\ pc' = "call"
    /\ UNCHANGED <<result, httpVars>>

\* read_http_request is called: its locals, and the lines of the trimmed input
EnterReadHttpRequest ==
    /\ pc = "idle"
    /\ TextCall(input', src')
    /\ pc' = "lines"
    /\ lines' = Lines(TrimStart(input'))
    /\ state' = "RequestLine"
    /\ method' = "GET"
    /\ path' = HttpPath_from_str(<<"/">>)
    /\ version' = "HTTP11"
    /\ headers' = EmptyMap
    /\ body' = None
    /\ UNCHANGED <<result, seen>>

NextTerminates == EnterHelper \/ EnterReadHttpRequest \/ NextHelpers \/ NextHttpText

\* a helper parser that was called takes its steps
SpecTerminates == InitTerminates /\ [][NextTerminates]_vars /\ WF_vars(NextHelpers)

\* r is what is left of t behind one character at least
ProperSuffix(r, t) == Len(r) < Len(t) /\ r = SubSeq(t, Len(t) - Len(r) + 1, Len(t))

\* an iteration after which the loop goes on has shortened the cursor, and
\* a line read by read_http_request is one line less to read
Shortens ==
    /\ (pc = "loop" /\ pc' = "loop") => ProperSuffix(result'.rest, result.rest)
    /\ (pc = "lines" /\ pc' = "lines") => Len(lines') < Len(lines)

\* a helper that returned Ok returned a proper suffix of its input
HelperConsumes ==
    (pc = "done" /\ src.kind # "text" /\ result.kind = "Ok") => ProperSuffix(result.rest, input)

\* C25: every call ends after finitely many steps.  An iteration of the loop
\* of parse_number, parse_array or parse_object either ends the call or
\* leaves a strictly shorter cursor, and a line read by read_http_request
\* leaves one line less to read; a helper that returns Ok returns a proper
\* suffix of its input; and every helper call that was made comes to its end.
C25_Terminates ==
    /\ [][Shortens]_vars
    /\ []HelperConsumes
    /\ (pc \in {"call", "loop"}) ~> (pc = "done")

\* the array `[1,true]`: two iterations, then the return with nothing left
C25_Witness ==
    /\ pc = "done" /\ src.kind = "array"
    /\ input = <<"[", "1", ",", "t", "r", "u", "e", "]">>
    /\ result = Ok(<<JNumber(1), JBoolean(TRUE)>>, <<>>)

====
